---- MODULE Spec2Model ----
(***************************************************************************)
(* A model of the Lox tree-walking interpreter of lox/: the resolver       *)
(* (lox/resolver.py), the environments (lox/environment.py), the runtime   *)
(* objects (lox/lox_function.py, lox_class.py, lox_instance.py,            *)
(* lox_trait.py) and the interpreter (lox/interpreter.py), driven by the   *)
(* REPL of src/lox/lox.py, which runs one source after another on the same *)
(* interpreter.                                                            *)
(*                                                                         *)
(* Python objects live in two arenas, envs (Environment objects) and heap  *)
(* (LoxFunction, LoxClass, LoxInstance, LoxTrait objects); a reference is  *)
(* an index, 0 is None.  Expression nodes that the side-table can key on   *)
(* carry an id, the node's identity.  Numbers are whole-valued doubles.    *)
(***************************************************************************)
EXTENDS Integers, Sequences, FiniteSets, TLC

(***************************************************************************)
(* Bounds of the model.                                                    *)
(***************************************************************************)
MaxRuns == 1

(***************************************************************************)
(* Runtime values: Python None, bool, float, str and object references.    *)
(***************************************************************************)
Nil == [t |-> "nil", n |-> 0, s |-> ""]
Bool(b) == [t |-> "bool", n |-> IF b THEN 1 ELSE 0, s |-> ""]
Num(x) == [t |-> "num", n |-> x, s |-> ""]
Str(x) == [t |-> "str", n |-> 0, s |-> x]
Ref(kind, i) == [t |-> kind, n |-> i, s |-> ""]
Native(name) == [t |-> "native", n |-> 0, s |-> name]

(***************************************************************************)
(* AST nodes (lox/expr.py, lox/stmt.py).  A Token is reduced to its        *)
(* lexeme.                                                                 *)
(***************************************************************************)
NoExpr == [k |-> "None"]
NoStmt == [k |-> "None"]
Literal(v) == [k |-> "Literal", value |-> v]
Variable(id, name) == [k |-> "Variable", id |-> id, name |-> name]
Assign(id, name, value) == [k |-> "Assign", id |-> id, name |-> name, value |-> value]
Binary(left, op, right) == [k |-> "Binary", left |-> left, operator |-> op, right |-> right]
Logical(left, op, right) == [k |-> "Logical", left |-> left, operator |-> op, right |-> right]
Unary(op, right) == [k |-> "Unary", operator |-> op, right |-> right]
Grouping(e) == [k |-> "Grouping", expression |-> e]
Call(callee, args) == [k |-> "Call", callee |-> callee, arguments |-> args]
Get(object, name) == [k |-> "Get", object |-> object, name |-> name]
SetExpr(object, name, value) == [k |-> "Set", object |-> object, name |-> name, value |-> value]
This(id) == [k |-> "This", id |-> id]
Super(id, method) == [k |-> "Super", id |-> id, method |-> method]
Conditional(c, t, e) == [k |-> "Conditional", condition |-> c, then_branch |-> t, else_branch |-> e]

Expression(e) == [k |-> "Expression", expression |-> e]
PrintStmt(e) == [k |-> "Print", expression |-> e]
Var(name, init) == [k |-> "Var", name |-> name, initializer |-> init]
Block(ss) == [k |-> "Block", statements |-> ss]
If(c, t, e) == [k |-> "If", condition |-> c, then_branch |-> t, else_branch |-> e]
While(id, c, body) == [k |-> "While", id |-> id, condition |-> c, body |-> body]
Break(id) == [k |-> "Break", id |-> id]
Function(name, params, body) == [k |-> "Function", name |-> name, params |-> params, getter |-> FALSE, body |-> body]
Getter(name, body) == [k |-> "Function", name |-> name, params |-> <<>>, getter |-> TRUE, body |-> body]
Return(value) == [k |-> "Return", value |-> value]
Class(name, superclass, methods, class_methods, traits) == [k |-> "Class", name |-> name, superclass |-> superclass, methods |-> methods, class_methods |-> class_methods, traits |-> traits]
Trait(name, traits, methods) == [k |-> "Trait", name |-> name, traits |-> traits, methods |-> methods]

(***************************************************************************)
(* lox/environment.py                                                      *)
(***************************************************************************)
NoValues == [x \in {} |-> Nil]
Environment(enclosing) == [enclosing |-> enclosing, values |-> NoValues]

\* Environment(enclosing) allocated in the arena; the new object is Len(envs).
NewEnv(I, enclosing) == [I EXCEPT !.envs = Append(@, Environment(enclosing))]

define(I, env, name, value) ==
    [I EXCEPT !.envs[env].values = (name :> value) @@ @]

\* The environment holding name on the chain from env, 0 when there is none.
RECURSIVE Holder(_, _, _)
Holder(I, env, name) ==
    IF env = 0 THEN 0
    ELSE IF name \in DOMAIN I.envs[env].values THEN env
    ELSE Holder(I, I.envs[env].enclosing, name)

\* Environment._ancestor: 0 stands for the failed assertion.
RECURSIVE ancestor(_, _, _)
ancestor(I, env, distance) ==
    IF distance <= 0 THEN env
    ELSE IF I.envs[env].enclosing = 0 THEN 0
    ELSE ancestor(I, I.envs[env].enclosing, distance - 1)

\* dict.get(name): None when the key is missing.
DictGet(values, name) == IF name \in DOMAIN values THEN values[name] ELSE Nil

(***************************************************************************)
(* lox/resolver.py.  R is the resolver: scopes (the Stack of dicts, top    *)
(* last), locals (the interpreter's side-table it writes into), errors     *)
(* (the messages given to the error handler), current_function and         *)
(* current_class; todo is its position in the statements (see below).      *)
(***************************************************************************)
Resolver(locals) ==
    [scopes |-> <<>>, locals |-> locals, errors |-> <<>>,
     current_function |-> "NONE", current_class |-> "NONE", todo |-> <<>>]

error(R, message) == [R EXCEPT !.errors = Append(@, message)]

begin_scope(R) == [R EXCEPT !.scopes = Append(@, [x \in {} |-> FALSE])]

\* _end_scope that leaves the scope on the stack
end_scope_leaves(R) == R

\* Resolver._end_scope
end_scope(R) == [R EXCEPT !.scopes = SubSeq(@, 1, Len(@) - 1)]

\* scopes.peek()[name] = value
PutTop(R, name, value) ==
    [R EXCEPT !.scopes[Len(R.scopes)] = (name :> value) @@ @]

declare(R, name) ==
    IF R.scopes = <<>> THEN R
    ELSE LET E == IF name \in DOMAIN R.scopes[Len(R.scopes)]
                  THEN error(R, "Variable with this name already declared in this scope.")
                  ELSE R
         IN  PutTop(E, name, FALSE)

Resolver_define(R, name) ==
    IF R.scopes = <<>> THEN R ELSE PutTop(R, name, TRUE)

\* Interpreter.resolve: _locals[expr] = depth
Interpreter_resolve(locals, id, depth) == (id :> depth) @@ locals

RECURSIVE ScanScopes(_, _, _, _)
ScanScopes(R, id, name, i) ==
    IF i = 0 THEN R
    ELSE IF name \in DOMAIN R.scopes[i]
         THEN [R EXCEPT !.locals = Interpreter_resolve(@, id, Len(R.scopes) - i)]
         ELSE ScanScopes(R, id, name, i - 1)

resolve_local(R, id, name) == ScanScopes(R, id, name, Len(R.scopes))

(***************************************************************************)
(* The visit methods of the resolver.  todo is what the resolver still has *)
(* to do, in order: the head is the step in hand, and a visit method does  *)
(* its own part up to its first nested resolve and leaves the nested       *)
(* resolves and what it does between and after them as steps in their      *)
(* place.  A step is a statement or an expression to resolve, a function   *)
(* to resolve (arg is its FunctionType), or one of the statements of the   *)
(* visit methods: _end_scope(), scopes.peek()[arg] = True after            *)
(* _begin_scope(), _define(arg), _resolve_local(node, arg),                *)
(* current_function = arg, current_class = arg.                            *)
(***************************************************************************)
Step(op, node, arg) == [op |-> op, node |-> node, arg |-> arg]

\* self.resolve(x) for every x of a list
ResolveAll(op, nodes, arg) == [i \in 1..Len(nodes) |-> Step(op, nodes[i], arg)]

\* the step in hand is done and steps take its place
Todo(R, steps) == [R EXCEPT !.todo = steps \o Tail(@)]

RECURSIVE DeclareParams(_, _, _)
DeclareParams(R, params, i) ==
    IF i > Len(params) THEN R
    ELSE DeclareParams(Resolver_define(declare(R, params[i]), params[i]), params, i + 1)

resolve_function(R, function, type) ==
    LET enclosing_function == R.current_function
        R1 == begin_scope([R EXCEPT !.current_function = type])
        R2 == DeclareParams(R1, function.params, 1)
    IN  Todo(R2, ResolveAll("stmt", function.body, "")
                 \o <<Step("end_scope", NoStmt, ""),
                      Step("current_function", NoStmt, enclosing_function)>>)

\* for method in stmt.methods; in a class (not in a trait) init is an INITIALIZER
resolve_methods(methods, in_class) ==
    [i \in 1..Len(methods) |->
        Step("function", methods[i],
             IF in_class /\ methods[i].name = "init" THEN "INITIALIZER" ELSE "METHOD")]

\* for method in stmt.class_methods
RECURSIVE resolve_class_methods(_, _)
resolve_class_methods(methods, i) ==
    IF i > Len(methods) THEN <<>>
    ELSE <<Step("scope", NoStmt, "this"), Step("function", methods[i], "METHOD"),
           Step("end_scope", NoStmt, "")>> \o resolve_class_methods(methods, i + 1)

Resolver_visit_class_stmt(R, stmt) ==
    LET enclosing_class == R.current_class
        hasSuper == stmt.superclass.k # "None"
        R1 == Resolver_define(declare([R EXCEPT !.current_class = "CLASS"], stmt.name), stmt.name)
        R2 == IF hasSuper /\ stmt.name = stmt.superclass.name
              THEN error(R1, "A class can't inherit from itself.") ELSE R1
        R3 == IF hasSuper THEN [R2 EXCEPT !.current_class = "SUBCLASS"] ELSE R2
    IN  Todo(R3, (IF hasSuper
                  THEN <<Step("expr", stmt.superclass, ""), Step("scope", NoStmt, "super")>>
                  ELSE <<>>)
                 \o <<Step("scope", NoStmt, "this")>>
                 \o resolve_methods(stmt.methods, TRUE)
                 \o resolve_class_methods(stmt.class_methods, 1)
                 \o <<Step("end_scope", NoStmt, "")>>
                 \o (IF hasSuper THEN <<Step("end_scope", NoStmt, "")>> ELSE <<>>)
                 \o <<Step("current_class", NoStmt, enclosing_class)>>)

Resolver_visit_trait_stmt(R, stmt) ==
    LET R1 == Resolver_define(declare(R, stmt.name), stmt.name)
        enclosing_class == R1.current_class
    IN  Todo([R1 EXCEPT !.current_class = "TRAIT"],
             ResolveAll("expr", stmt.traits, "")
             \o <<Step("scope", NoStmt, "this")>>
             \o resolve_methods(stmt.methods, FALSE)
             \o <<Step("end_scope", NoStmt, ""),
                  Step("current_class", NoStmt, enclosing_class)>>)

Resolver_visit_return_stmt(R, stmt) ==
    LET R1 == IF R.current_function = "NONE"
              THEN error(R, "Cannot return from top-level code.") ELSE R
    IN  IF stmt.value.k = "None" THEN Todo(R1, <<>>)
        ELSE LET R2 == IF R1.current_function = "INITIALIZER"
                       THEN error(R1, "Cannot return a value from an initializer.")
                       ELSE R1
             IN  Todo(R2, <<Step("expr", stmt.value, "")>>)

Resolver_visit_var_stmt(R, stmt) ==
    LET R1 == declare(R, stmt.name)
    IN  IF stmt.initializer.k # "None"
        THEN Todo(R1, <<Step("expr", stmt.initializer, ""), Step("define", NoStmt, stmt.name)>>)
        ELSE Todo(Resolver_define(R1, stmt.name), <<>>)

\* Resolver.resolve(stmt): stmt.accept(self)
resolve_stmt(R, stmt) ==
    CASE stmt.k = "Block" ->
            Todo(begin_scope(R),
                 ResolveAll("stmt", stmt.statements, "") \o <<Step("end_scope", NoStmt, "")>>)
      [] stmt.k = "Class" -> Resolver_visit_class_stmt(R, stmt)
      [] stmt.k = "Expression" -> Todo(R, <<Step("expr", stmt.expression, "")>>)
      [] stmt.k = "Function" ->
            Todo(Resolver_define(declare(R, stmt.name), stmt.name),
                 <<Step("function", stmt, "FUNCTION")>>)
      [] stmt.k = "If" ->
            Todo(R, <<Step("expr", stmt.condition, ""), Step("stmt", stmt.then_branch, "")>>
                    \o (IF stmt.else_branch.k # "None"
                        THEN <<Step("stmt", stmt.else_branch, "")>> ELSE <<>>))
      [] stmt.k = "Print" -> Todo(R, <<Step("expr", stmt.expression, "")>>)
      [] stmt.k = "Return" -> Resolver_visit_return_stmt(R, stmt)
      [] stmt.k = "While" ->
            Todo(R, <<Step("expr", stmt.condition, ""), Step("stmt", stmt.body, "")>>)
      [] stmt.k = "Var" -> Resolver_visit_var_stmt(R, stmt)
      [] stmt.k = "Break" -> Todo(R, <<>>)
      [] stmt.k = "Trait" -> Resolver_visit_trait_stmt(R, stmt)

Resolver_visit_variable_expr(R, expr) ==
    LET R1 == IF /\ R.scopes # <<>>
                 /\ expr.name \in DOMAIN R.scopes[Len(R.scopes)]
                 /\ R.scopes[Len(R.scopes)][expr.name] = FALSE
              THEN error(R, "Cannot read local variable in its own initializer.")
              ELSE R
    IN  resolve_local(R1, expr.id, expr.name)

Resolver_visit_this_expr(R, expr) ==
    IF R.current_class = "NONE"
    THEN error(R, "Cannot use 'this' outside of a class.")
    ELSE resolve_local(R, expr.id, "this")

Resolver_visit_super_expr(R, expr) ==
    LET R1 == CASE R.current_class = "NONE" ->
                     error(R, "Can't use 'super' outside of a class.")
                [] R.current_class = "TRAIT" ->
                     error(R, "Can't use 'super' in a trait.")
                [] R.current_class \notin {"NONE", "TRAIT", "SUBCLASS"} ->
                     error(R, "Can't use 'super' in a class with no superclass.")
                [] OTHER -> R
    IN  resolve_local(R1, expr.id, "super")

\* Resolver.resolve(expr): expr.accept(self)
resolve_expr(R, expr) ==
    CASE expr.k = "Variable" -> Todo(Resolver_visit_variable_expr(R, expr), <<>>)
      [] expr.k = "Assign" ->
            Todo(R, <<Step("expr", expr.value, ""), Step("resolve_local", expr, expr.name)>>)
      [] expr.k \in {"Binary", "Logical"} ->
            Todo(R, <<Step("expr", expr.left, ""), Step("expr", expr.right, "")>>)
      [] expr.k = "Call" ->
            Todo(R, <<Step("expr", expr.callee, "")>> \o ResolveAll("expr", expr.arguments, ""))
      [] expr.k = "Get" -> Todo(R, <<Step("expr", expr.object, "")>>)
      [] expr.k = "Grouping" -> Todo(R, <<Step("expr", expr.expression, "")>>)
      [] expr.k = "Literal" -> Todo(R, <<>>)
      [] expr.k = "Conditional" ->
            Todo(R, <<Step("expr", expr.condition, ""), Step("expr", expr.then_branch, ""),
                      Step("expr", expr.else_branch, "")>>)
      [] expr.k = "Set" ->
            Todo(R, <<Step("expr", expr.value, ""), Step("expr", expr.object, "")>>)
      [] expr.k = "This" -> Todo(Resolver_visit_this_expr(R, expr), <<>>)
      [] expr.k = "Unary" -> Todo(R, <<Step("expr", expr.right, "")>>)
      [] expr.k = "Super" -> Todo(Resolver_visit_super_expr(R, expr), <<>>)

\* the step in hand
resolve(R) ==
    LET step == Head(R.todo)
    IN  CASE step.op = "stmt" -> resolve_stmt(R, step.node)
          [] step.op = "expr" -> resolve_expr(R, step.node)
          [] step.op = "function" -> resolve_function(R, step.node, step.arg)
          [] step.op = "end_scope" -> Todo(end_scope(R), <<>>)
          [] step.op = "scope" -> Todo(PutTop(begin_scope(R), step.arg, TRUE), <<>>)
          [] step.op = "define" -> Todo(Resolver_define(R, step.arg), <<>>)
          [] step.op = "resolve_local" ->
                Todo(resolve_local(R, step.node.id, step.arg), <<>>)
          [] step.op = "current_function" -> Todo([R EXCEPT !.current_function = step.arg], <<>>)
          [] step.op = "current_class" -> Todo([R EXCEPT !.current_class = step.arg], <<>>)

(***************************************************************************)
(* lox/scanner.py and lox/tokens.py.  A source is the sequence of its      *)
(* characters; S is the scanner: source, tokens, start, current, line,     *)
(* line_current, with errors the error handler's list and exc the class of *)
(* the Python exception that has left the scanner ("" when none).  A Token *)
(* is [type, lexeme, literal, line]; a NUMBER literal with a fraction      *)
(* keeps the digits of the fraction in s.                                  *)
(***************************************************************************)
Digit == {"0", "1", "2", "3", "4", "5", "6", "7", "8", "9"}

Letter ==
    {"a", "b", "c", "d", "e", "f", "g", "h", "i", "j", "k", "l", "m", "n", "o",
     "p", "q", "r", "s", "t", "u", "v", "w", "x", "y", "z"}

\* KEYWORDS: the TokenType of a reserved word
KEYWORDS ==
    [text \in {"and", "class", "else", "false", "fun", "for", "if", "nil", "or",
               "print", "return", "super", "this", "true", "var", "while",
               "break", "trait", "with"} |->
        CASE text = "and" -> "AND" [] text = "class" -> "CLASS"
          [] text = "else" -> "ELSE" [] text = "false" -> "FALSE"
          [] text = "fun" -> "FUN" [] text = "for" -> "FOR" [] text = "if" -> "IF"
          [] text = "nil" -> "NIL" [] text = "or" -> "OR" [] text = "print" -> "PRINT"
          [] text = "return" -> "RETURN" [] text = "super" -> "SUPER"
          [] text = "this" -> "THIS" [] text = "true" -> "TRUE" [] text = "var" -> "VAR"
          [] text = "while" -> "WHILE" [] text = "break" -> "BREAK"
          [] text = "trait" -> "TRAIT" [] text = "with" -> "WITH"]

Token(type, lexeme, literal, line) ==
    [type |-> type, lexeme |-> lexeme, literal |-> literal, line |-> line]

Scanner(source, errors) ==
    [source |-> source, tokens |-> <<>>, start |-> 0, current |-> 0, line |-> 1,
     line_current |-> 0, errors |-> errors, exc |-> ""]

\* self.source[a:b] as a str
RECURSIVE Slice(_, _, _)
Slice(source, a, b) ==
    IF a >= b \/ a >= Len(source) THEN "" ELSE source[a + 1] \o Slice(source, a + 1, b)

\* float(text) of the digits source[a:b]
RECURSIVE Float(_, _, _)
Float(source, a, b) ==
    IF a >= b THEN 0
    ELSE 10 * Float(source, a, b - 1)
         + CHOOSE d \in 0..9 : ToString(d) = source[b]

Scanner_peek(S) ==
    IF S.current >= Len(S.source) THEN "\\0" ELSE S.source[S.current + 1]

peek_next(S) ==
    IF S.current + 1 >= Len(S.source) THEN "\\0" ELSE S.source[S.current + 2]

\* Scanner._advance: source[current - 1] raises IndexError past the end
Scanner_advance(S) ==
    [S EXCEPT !.current = @ + 1, !.line_current = @ + 1,
              !.exc = IF S.current >= Len(S.source) THEN "IndexError" ELSE @]

update_line(S) == [S EXCEPT !.line = @ + 1, !.line_current = 0]

\* add_token with source[0:current] as the text of the token
add_token_from_zero(S, type, literal) ==
    [S EXCEPT !.tokens = Append(@, Token(type, Slice(S.source, 0, S.current),
                                         literal, S.line))]

\* Scanner.add_token
add_token(S, type, literal) ==
    [S EXCEPT !.tokens = Append(@, Token(type, Slice(S.source, S.start, S.current),
                                         literal, S.line))]

\* while self._peek() in chars: self._advance()
RECURSIVE advance_while(_, _)
advance_while(S, chars) ==
    IF Scanner_peek(S) \in chars THEN advance_while(Scanner_advance(S), chars) ELSE S

RECURSIVE string(_)
string(S) ==
    IF Scanner_peek(S) # "\"" /\ S.current < Len(S.source)
    THEN string(Scanner_advance(IF Scanner_peek(S) = "\n" THEN update_line(S) ELSE S))
    ELSE IF S.current >= Len(S.source) THEN error(S, "Unterminated string.")
    ELSE LET S1 == Scanner_advance(S)
         IN  add_token(S1, "STRING", Str(Slice(S.source, S.start + 1, S1.current - 1)))

number(S) ==
    LET S1 == advance_while(S, Digit)
        S2 == IF Scanner_peek(S1) = "." /\ peek_next(S1) \in Digit
              THEN advance_while(Scanner_advance(S1), Digit)
              ELSE S1
    IN  add_token(S2, "NUMBER",
                  [t |-> "num", n |-> Float(S.source, S.start, S1.current),
                   s |-> Slice(S.source, S1.current + 1, S2.current)])

identifier(S) ==
    LET S1 == advance_while(S, Digit \cup Letter)
        text == Slice(S.source, S.start, S1.current)
    IN  add_token(S1, IF text \in DOMAIN KEYWORDS THEN KEYWORDS[text] ELSE "IDENTIFIER", Nil)

\* Scanner.block_comment, nesting_level being the local variable
RECURSIVE block_comment(_, _)
block_comment(S, nesting_level) ==
    IF S.exc # "" THEN S
    ELSE IF S.current >= Len(S.source) THEN error(S, "Unterminated block comment.")
    ELSE LET open == Scanner_peek(S) = "/" /\ peek_next(S) = "*"
             close == ~open /\ Scanner_peek(S) = "*" /\ peek_next(S) = "/"
             S1 == IF open \/ close THEN Scanner_advance(Scanner_advance(S)) ELSE S
             level == IF open THEN nesting_level + 1
                      ELSE IF close THEN nesting_level - 1 ELSE nesting_level
             S2 == IF Scanner_peek(S1) = "\n" THEN update_line(S1) ELSE S1
         IN  IF close /\ level = 0 THEN S1
             ELSE block_comment(Scanner_advance(S2), level)

\* Scanner._match(expected) and add_token(yes if it matched else no)
add_token_match(S, expected, yes, no) ==
    IF Scanner_peek(S) = expected
    THEN add_token([S EXCEPT !.current = @ + 1, !.line_current = @ + 1], yes, Nil)
    ELSE add_token(S, no, Nil)

scan_token(S0) ==
    LET S == Scanner_advance(S0)
        c == S0.source[S0.current + 1]
        single == [x \in {"(", ")", "{", "}", ",", ".", "-", "+", ";", "*", "%", "?", ":"} |->
                     CASE x = "(" -> "LEFT_PAREN" [] x = ")" -> "RIGHT_PAREN"
                       [] x = "{" -> "LEFT_BRACE" [] x = "}" -> "RIGHT_BRACE"
                       [] x = "," -> "COMMA" [] x = "." -> "DOT" [] x = "-" -> "MINUS"
                       [] x = "+" -> "PLUS" [] x = ";" -> "SEMICOLON" [] x = "*" -> "STAR"
                       [] x = "%" -> "MODULO" [] x = "?" -> "QUESTION" [] x = ":" -> "COLON"]
    IN  CASE c \in DOMAIN single -> add_token(S, single[c], Nil)
          [] c = "!" -> add_token_match(S, "=", "BANG_EQUAL", "BANG")
          [] c = "=" -> add_token_match(S, "=", "EQUAL_EQUAL", "EQUAL")
          [] c = "<" -> add_token_match(S, "=", "LESS_EQUAL", "LESS")
          [] c = ">" -> add_token_match(S, "=", "GREATER_EQUAL", "GREATER")
          [] c = "/" ->
                IF Scanner_peek(S) = "/"
                THEN advance_while(Scanner_advance(S),
                                   {S.source[i] : i \in DOMAIN S.source} \ {"\n"})
                ELSE IF Scanner_peek(S) = "*" THEN block_comment(Scanner_advance(S), 1)
                ELSE add_token(S, "SLASH", Nil)
          [] c \in {" ", "\r", "\t"} -> S
          [] c = "\n" -> update_line(S)
          [] c = "\"" -> string(S)
          [] c \in Digit -> number(S)
          [] c \in Letter -> identifier(S)
          [] OTHER -> error(S, "Token not accepted")

\* Scanner.scan_tokens; an exception leaves it before the EOF token is added
RECURSIVE scan_tokens(_)
scan_tokens(S) ==
    IF S.exc # "" THEN S
    ELSE IF S.current < Len(S.source) THEN scan_tokens(scan_token([S EXCEPT !.start = S.current]))
    ELSE [S EXCEPT !.tokens = Append(@, Token("EOF", "", Nil, S.line))]

(***************************************************************************)
(* lox/parser.py.  P is the parser: tokens, current, the error handler's   *)
(* errors and the statements parse has collected; the identity of a node   *)
(* that needs one is base plus the position of its token.  A parsing       *)
(* method returns [P, ok, node]: the parser after it, whether it returned  *)
(* (ok) or raised ParseError, and the node or token it returned; exc is    *)
(* the class of the exception that has left parse ("" when none).          *)
(***************************************************************************)
Parser(tokens, errors, base) ==
    [tokens |-> tokens, current |-> 0, errors |-> errors, base |-> base,
     statements |-> <<>>, exc |-> ""]

Parser_peek(P) == P.tokens[P.current + 1]

\* Parser._check for any of the types; no type is checked at EOF
check(P, types) == Parser_peek(P).type \in types \ {"EOF"}

Parser_advance(P) ==
    IF Parser_peek(P).type # "EOF" THEN [P EXCEPT !.current = @ + 1] ELSE P

\* return node
Yield(P, node) == [P |-> P, ok |-> TRUE, node |-> node]

\* raise self.error_handler.parse_error(token, message)
parse_error(P, message) == [P |-> error(P, message), ok |-> FALSE, node |-> NoStmt]

consume(P, type, message) ==
    IF check(P, {type}) THEN Yield(Parser_advance(P), Parser_peek(P))
    ELSE parse_error(P, message)

\* the statements after a call that returns r: they run, as K(r), when the
\* call has returned, and are skipped when it has raised ParseError
Then(r, K(_)) == IF r.ok THEN K(r) ELSE r

RECURSIVE Parser_method(_, _)
RECURSIVE synchronize(_, _)
RECURSIVE Parser_declaration(_)
RECURSIVE class_body(_, _, _, _)
RECURSIVE with_clause(_, _)
RECURSIVE statement(_)
RECURSIVE block(_, _)
RECURSIVE function(_, _)
RECURSIVE parameters(_, _)
RECURSIVE conditional(_)
RECURSIVE assignment(_)
RECURSIVE binary(_, _, _)
RECURSIVE unary(_)
RECURSIVE Parser_call(_, _)
RECURSIVE finish_call(_, _, _)
RECURSIVE primary(_)

\* Parser._synchronize; entered: its first _advance() is done
synchronize(P, entered) ==
    IF ~entered THEN synchronize(Parser_advance(P), TRUE)
    ELSE IF Parser_peek(P).type = "EOF" THEN P
    ELSE IF P.current > 0 /\ P.tokens[P.current].type = "SEMICOLON" THEN P
    ELSE IF Parser_peek(P).type \in
               {"CLASS", "FUNCTION", "VAR", "FOR", "IF", "WHILE", "PRINT", "RETURN"}
         THEN P
    ELSE synchronize(Parser_advance(P), TRUE)

\* the methods of a class or trait body up to the closing brace
class_body(P, methods, class_methods, is_class) ==
    IF check(P, {"RIGHT_BRACE"}) \/ Parser_peek(P).type = "EOF"
    THEN Yield(P, [methods |-> methods, class_methods |-> class_methods])
    ELSE IF is_class /\ check(P, {"CLASS"})
         THEN Then(Parser_method("function", <<Parser_advance(P), "method">>), LAMBDA f :
                   class_body(f.P, methods, Append(class_methods, f.node), is_class))
    ELSE Then(Parser_method("function", <<P, "method">>), LAMBDA f :
              class_body(f.P, Append(methods, f.node), class_methods, is_class))

\* Parser._with_clause; traits = <<>> on entry, then the loop after a comma
with_clause(P, traits) ==
    IF traits = <<>> /\ ~check(P, {"WITH"}) THEN Yield(P, <<>>)
    ELSE Then(consume(Parser_advance(P), "IDENTIFIER", "Expect trait name."), LAMBDA name :
              IF check(name.P, {"COMMA"})
              THEN with_clause(name.P, Append(traits, Variable(P.base + name.P.current,
                                                               name.node.lexeme)))
              ELSE Yield(name.P, Append(traits, Variable(P.base + name.P.current,
                                                         name.node.lexeme))))

\* the superclass of Parser._class_declaration
extends(P) ==
    IF ~check(P, {"LESS"}) THEN Yield(P, NoExpr)
    ELSE Then(consume(Parser_advance(P), "IDENTIFIER", "Expect superclass name."),
              LAMBDA name : Yield(name.P, Variable(P.base + name.P.current, name.node.lexeme)))

class_declaration(P) ==
    Then(consume(P, "IDENTIFIER", "Expect class name."), LAMBDA name :
    Then(extends(name.P), LAMBDA super :
    Then(with_clause(super.P, <<>>), LAMBDA traits :
    Then(consume(traits.P, "LEFT_BRACE", "Expect '{' before class body."), LAMBDA lb :
    Then(class_body(lb.P, <<>>, <<>>, TRUE), LAMBDA body :
    Then(consume(body.P, "RIGHT_BRACE", "Expect '}' after class body."), LAMBDA rb :
    Yield(rb.P, Class(name.node.lexeme, super.node, body.node.methods,
                      body.node.class_methods, traits.node))))))))

trait_declaration(P) ==
    Then(consume(P, "IDENTIFIER", "Expect trait name."), LAMBDA name :
    Then(with_clause(name.P, <<>>), LAMBDA traits :
    Then(consume(traits.P, "LEFT_BRACE", "Expect '{' before trait body."), LAMBDA lb :
    Then(class_body(lb.P, <<>>, <<>>, FALSE), LAMBDA body :
    Then(consume(body.P, "RIGHT_BRACE", "Expect '}' after trait body."), LAMBDA rb :
    Yield(rb.P, Trait(name.node.lexeme, traits.node, body.node.methods)))))))

var_declaration(P) ==
    Then(consume(P, "IDENTIFIER", "Expect variable name."), LAMBDA name :
    Then(IF check(name.P, {"EQUAL"}) THEN Parser_method("conditional", <<Parser_advance(name.P)>>)
         ELSE Yield(name.P, Literal(Nil)), LAMBDA initializer :
    Then(consume(initializer.P, "SEMICOLON", "Expect ';' after variable declaration."),
         LAMBDA semi : Yield(semi.P, Var(name.node.lexeme, initializer.node)))))

\* the except clause of Parser._declaration: _synchronize and None
\* _declaration without its except clause: the ParseError propagates
except_ParseError_propagates(r) == r

except_ParseError(r) == IF r.ok THEN r ELSE Yield(synchronize(r.P, FALSE), NoStmt)

\* Parser._declaration
Parser_declaration(P) ==
    except_ParseError(
        CASE check(P, {"CLASS"}) -> class_declaration(Parser_advance(P))
          [] check(P, {"TRAIT"}) -> trait_declaration(Parser_advance(P))
          [] check(P, {"FUN"}) -> Parser_method("function", <<Parser_advance(P), "function">>)
          [] check(P, {"VAR"}) -> var_declaration(Parser_advance(P))
          [] OTHER -> Parser_method("statement", <<P>>))

\* Parser._block after the opening brace
block(P, statements) ==
    IF ~check(P, {"RIGHT_BRACE"}) /\ Parser_peek(P).type # "EOF"
    THEN Then(Parser_method("declaration", <<P>>), LAMBDA stmt :
              block(stmt.P, IF stmt.node = NoStmt THEN statements
                            ELSE Append(statements, stmt.node)))
    ELSE Then(consume(P, "RIGHT_BRACE", "Expect '}' after block."),
              LAMBDA rb : Yield(rb.P, statements))

\* the parameter list of Parser._function
parameters(P, found) ==
    Then(consume(IF Len(found) >= 255
                 THEN error(P, "Can't have more than 255 parameters.") ELSE P,
                 "IDENTIFIER", "Expect parameter name."), LAMBDA name :
         IF check(name.P, {"COMMA"})
         THEN parameters(Parser_advance(name.P), Append(found, name.node.lexeme))
         ELSE Yield(name.P, Append(found, name.node.lexeme)))

\* Parser._function after the name: the parameters, if there is a list (a
\* method without one is a getter), and the body
function_body(P, kind, name) ==
    IF kind = "method" /\ ~check(P, {"LEFT_PAREN"})
    THEN Then(consume(P, "LEFT_BRACE", "Expect '{' before " \o kind \o " body."), LAMBDA lb :
         Then(Parser_method("block", <<lb.P, <<>>>>), LAMBDA body : Yield(body.P, Getter(name, body.node))))
    ELSE Then(consume(P, "LEFT_PAREN", "Expect '(' after " \o kind \o " name."), LAMBDA lp :
         Then(IF check(lp.P, {"RIGHT_PAREN"}) THEN Yield(lp.P, <<>>)
              ELSE parameters(lp.P, <<>>), LAMBDA params :
         Then(consume(params.P, "RIGHT_PAREN", "Expect ')' after parameters."), LAMBDA rp :
         Then(consume(rp.P, "LEFT_BRACE", "Expect '{' before " \o kind \o " body."), LAMBDA lb :
         Then(Parser_method("block", <<lb.P, <<>>>>), LAMBDA body :
         Yield(body.P, Function(name, params.node, body.node)))))))

function(P, kind) ==
    Then(consume(P, "IDENTIFIER", "Expect " \o kind \o " name."),
         LAMBDA name : function_body(name.P, kind, name.node.lexeme))

\* Parser._expression_statement, and Parser._print_statement when printed
expression_statement(P, printed) ==
    Then(Parser_method("conditional", <<P>>), LAMBDA expr :
    Then(consume(expr.P, "SEMICOLON", IF printed THEN "Expect ';' after value."
                                      ELSE "Expect ';' after expression."), LAMBDA semi :
    Yield(semi.P, IF printed THEN PrintStmt(expr.node) ELSE Expression(expr.node))))

if_statement(P) ==
    Then(consume(P, "LEFT_PAREN", "Expect '(' after 'if'."), LAMBDA lp :
    Then(Parser_method("conditional", <<lp.P>>), LAMBDA condition :
    Then(consume(condition.P, "RIGHT_PAREN", "Expect ')' after if condition."), LAMBDA rp :
    Then(Parser_method("statement", <<rp.P>>), LAMBDA then_branch :
    Then(IF check(then_branch.P, {"ELSE"}) THEN Parser_method("statement", <<Parser_advance(then_branch.P)>>)
         ELSE Yield(then_branch.P, NoStmt), LAMBDA else_branch :
    Yield(else_branch.P, If(condition.node, then_branch.node, else_branch.node)))))))

\* the desugaring with the increment as the last statement of the outer
\* block, after the loop
for_loop_increment_after(id, initializer, condition, increment, body) ==
    LET loop == While(id, IF condition = NoExpr THEN Literal(Bool(TRUE)) ELSE condition, body)
    IN  IF increment # NoExpr
        THEN Block(IF initializer # NoStmt THEN <<initializer, loop, Expression(increment)>>
                   ELSE <<loop, Expression(increment)>>)
        ELSE IF initializer # NoStmt THEN Block(<<initializer, loop>>) ELSE loop

\* the desugaring of Parser._for_statement; id is the identity of the loop
for_loop(id, initializer, condition, increment, body) ==
    LET loop == While(id, IF condition = NoExpr THEN Literal(Bool(TRUE)) ELSE condition,
                      IF increment # NoExpr THEN Block(<<body, Expression(increment)>>)
                      ELSE body)
    IN  IF initializer # NoStmt THEN Block(<<initializer, loop>>) ELSE loop

\* Parser._for_statement after the keyword, which is the token at P.current
for_statement(P) ==
    Then(consume(P, "LEFT_PAREN", "Expect '(' after 'for'."), LAMBDA lp :
    Then(CASE check(lp.P, {"SEMICOLON"}) -> Yield(Parser_advance(lp.P), NoStmt)
           [] check(lp.P, {"VAR"}) -> var_declaration(Parser_advance(lp.P))
           [] OTHER -> expression_statement(lp.P, FALSE), LAMBDA initializer :
    Then(IF ~check(initializer.P, {"SEMICOLON"}) THEN Parser_method("conditional", <<initializer.P>>)
         ELSE Yield(initializer.P, NoExpr), LAMBDA condition :
    Then(consume(condition.P, "SEMICOLON", "Expect ';' after loop condition."), LAMBDA semi :
    Then(IF ~check(semi.P, {"RIGHT_PAREN"}) THEN Parser_method("conditional", <<semi.P>>)
         ELSE Yield(semi.P, NoExpr), LAMBDA increment :
    Then(consume(increment.P, "RIGHT_PAREN", "Expect ')' after for clauses."), LAMBDA rp :
    Then(Parser_method("statement", <<rp.P>>), LAMBDA body :
    Yield(body.P, for_loop(P.base + P.current, initializer.node, condition.node,
                           increment.node, body.node)))))))))

\* Parser._return_statement after the keyword
return_statement(P) ==
    Then(IF ~check(P, {"SEMICOLON"}) THEN Parser_method("conditional", <<P>>) ELSE Yield(P, NoExpr), LAMBDA value :
    Then(consume(value.P, "SEMICOLON", "Expect ';' after return value."), LAMBDA semi :
    Yield(semi.P, Return(value.node))))

\* Parser._while_statement after the keyword, which is the token at P.current
while_statement(P) ==
    Then(consume(P, "LEFT_PAREN", "Expect '(' after 'while'."), LAMBDA lp :
    Then(Parser_method("conditional", <<lp.P>>), LAMBDA condition :
    Then(consume(condition.P, "RIGHT_PAREN", "Expect ')' after while condition."), LAMBDA rp :
    Then(Parser_method("statement", <<rp.P>>), LAMBDA body :
    Yield(body.P, While(P.base + P.current, condition.node, body.node))))))

\* Parser._statement, with _break_statement
statement(P) ==
    CASE check(P, {"IF"}) -> if_statement(Parser_advance(P))
      [] check(P, {"FOR"}) -> for_statement(Parser_advance(P))
      [] check(P, {"PRINT"}) -> expression_statement(Parser_advance(P), TRUE)
      [] check(P, {"RETURN"}) -> return_statement(Parser_advance(P))
      [] check(P, {"WHILE"}) -> while_statement(Parser_advance(P))
      [] check(P, {"BREAK"}) ->
            Then(consume(Parser_advance(P), "SEMICOLON", "Expect ';' after 'break'."),
                 LAMBDA semi : Yield(semi.P, Break(P.base + P.current + 1)))
      [] check(P, {"LEFT_BRACE"}) ->
            Then(Parser_method("block", <<Parser_advance(P), <<>>>>),
                 LAMBDA statements : Yield(statements.P, Block(statements.node)))
      [] OTHER -> expression_statement(P, FALSE)

\* Parser._expression is _conditional
conditional(P) ==
    Then(assignment(P), LAMBDA expr :
         IF ~check(expr.P, {"QUESTION"}) THEN expr
         ELSE Then(conditional(Parser_advance(expr.P)), LAMBDA then_branch :
              Then(consume(then_branch.P, "COLON",
                           "Expect ':' after then branch of conditional expression."),
                   LAMBDA colon :
              Then(conditional(colon.P), LAMBDA else_branch :
              Yield(else_branch.P,
                    Conditional(expr.node, then_branch.node, else_branch.node))))))

\* Parser._assignment: an invalid target is reported, not raised
assignment(P) ==
    Then(binary(P, 1, NoExpr), LAMBDA expr :
         IF ~check(expr.P, {"EQUAL"}) THEN expr
         ELSE Then(assignment(Parser_advance(expr.P)), LAMBDA value :
              CASE expr.node.k = "Variable" ->
                      Yield(value.P, Assign(expr.node.id, expr.node.name, value.node))
                [] expr.node.k = "Get" ->
                      Yield(value.P, SetExpr(expr.node.object, expr.node.name, value.node))
                [] OTHER -> Yield(error(value.P, "Invalid assignment target."), expr.node)))

\* the operand of a binary operator of a level: the next level, _unary after
\* _factor
operand(P, level) == IF level = 6 THEN unary(P) ELSE binary(P, level + 1, NoExpr)

\* Parser._or (level 1), _and, _equality, _comparison, _term, _factor (level
\* 6); expr is the left operand inside the while loop and None before it
binary(P, level, expr) ==
    IF expr = NoExpr
    THEN Then(operand(P, level), LAMBDA left : binary(left.P, level, left.node))
    ELSE IF ~check(P, <<{"OR"}, {"AND"}, {"BANG_EQUAL", "EQUAL_EQUAL"},
                        {"GREATER", "GREATER_EQUAL", "LESS", "LESS_EQUAL"},
                        {"MINUS", "PLUS"}, {"SLASH", "STAR", "MODULO"}>>[level])
         THEN Yield(P, expr)
    ELSE Then(operand(Parser_advance(P), level), LAMBDA right :
              binary(right.P, level,
                     IF level <= 2 THEN Logical(expr, Parser_peek(P).type, right.node)
                     ELSE Binary(expr, Parser_peek(P).type, right.node)))

unary(P) ==
    IF ~check(P, {"BANG", "MINUS"}) THEN Parser_call(P, NoExpr)
    ELSE Then(unary(Parser_advance(P)),
              LAMBDA right : Yield(right.P, Unary(Parser_peek(P).type, right.node)))

\* Parser._finish_call; arguments is empty after the opening parenthesis and
\* holds the arguments parsed so far inside the while loop
finish_call(P, callee, arguments) ==
    IF IF arguments = <<>> THEN ~check(P, {"RIGHT_PAREN"}) ELSE check(P, {"COMMA"})
    THEN Then(Parser_method("conditional", <<IF arguments = <<>> THEN P
                          ELSE IF Len(arguments) >= 255
                               THEN error(Parser_advance(P),
                                          "Cannot have more than 255 arguments.")
                          ELSE Parser_advance(P)>>), LAMBDA argument :
              finish_call(argument.P, callee, Append(arguments, argument.node)))
    ELSE Then(consume(P, "RIGHT_PAREN", "Expect ')' after arguments."),
              LAMBDA paren : Yield(paren.P, Call(callee, arguments)))

\* Parser._call; expr is None before _primary and the callee in the loop
Parser_call(P, expr) ==
    IF expr = NoExpr THEN Then(primary(P), LAMBDA first : Parser_call(first.P, first.node))
    ELSE IF check(P, {"LEFT_PAREN"})
         THEN Then(finish_call(Parser_advance(P), expr, <<>>),
                   LAMBDA called : Parser_call(called.P, called.node))
    ELSE IF check(P, {"DOT"})
         THEN Then(consume(Parser_advance(P), "IDENTIFIER",
                           "Expect property name after '.'."),
                   LAMBDA name : Parser_call(name.P, Get(expr, name.node.lexeme)))
    ELSE Yield(P, expr)

primary(P) ==
    CASE check(P, {"FALSE"}) -> Yield(Parser_advance(P), Literal(Bool(FALSE)))
      [] check(P, {"TRUE"}) -> Yield(Parser_advance(P), Literal(Bool(TRUE)))
      [] check(P, {"NIL"}) -> Yield(Parser_advance(P), Literal(Nil))
      [] check(P, {"NUMBER", "STRING"}) ->
            Yield(Parser_advance(P), Literal(Parser_peek(P).literal))
      [] check(P, {"SUPER"}) ->
            Then(consume(Parser_advance(P), "DOT", "Expect '.' after 'super'."), LAMBDA dot :
            Then(consume(dot.P, "IDENTIFIER", "Expect superclass method name."),
                 LAMBDA method : Yield(method.P, Super(P.base + P.current + 1,
                                                       method.node.lexeme))))
      [] check(P, {"THIS"}) -> Yield(Parser_advance(P), This(P.base + P.current + 1))
      [] check(P, {"IDENTIFIER"}) ->
            Yield(Parser_advance(P), Variable(P.base + P.current + 1, Parser_peek(P).lexeme))
      [] check(P, {"LEFT_PAREN"}) ->
            Then(Parser_method("conditional", <<Parser_advance(P)>>), LAMBDA expr :
            Then(consume(expr.P, "RIGHT_PAREN", "Expect ')' after expression."),
                 LAMBDA rp : Yield(rp.P, Grouping(expr.node))))
      [] OTHER -> parse_error(P, "Expect expression.")

\* the call of a parsing method by another one
Parser_method(name, a) ==
    CASE name = "declaration" -> Parser_declaration(a[1])
      [] name = "statement" -> statement(a[1])
      [] name = "conditional" -> conditional(a[1])
      [] name = "block" -> block(a[1], a[2])
      [] name = "function" -> function(a[1], a[2])

\* Parser.parse
RECURSIVE parse(_)
parse(P) ==
    IF Parser_peek(P).type = "EOF" THEN P
    ELSE LET stmt == Parser_method("declaration", <<P>>)
         IN  IF ~stmt.ok THEN [stmt.P EXCEPT !.exc = "ParseError"]
             ELSE parse([stmt.P EXCEPT !.statements = IF stmt.node = NoStmt THEN @
                                                      ELSE Append(@, stmt.node)])

(***************************************************************************)
(* The interpreter state I (lox/interpreter.py, Interpreter.__slots__ plus *)
(* the arenas and the Python call stack): envs, heap, environment          *)
(* (_environment), locals (_locals); globals is envs[1].                   *)
(*                                                                         *)
(* stack is the Python call stack of the interpreter, one frame per active *)
(* visit method, _execute_block, _apply_trait, LoxFunction.call or         *)
(* LoxClass.call: f is the method, node its expr/stmt argument, pc the     *)
(* position in its body, vals, a, b and m its local variables.  ret is the *)
(* value the last finished call returned (retm when it is a method dict),  *)
(* exc the exception that is propagating (sig "" when none): its class,    *)
(* the value a ReturnException carries, its message.                       *)
(*                                                                         *)
(* out is standard output of the current run, break_frame and break_id the *)
(* number of LoxFunction.call frames below the last BreakException when it *)
(* was raised and the statement that raised it.  obs records what happened *)
(* during the current run: side-table lookups, block exits, caught breaks, *)
(* truthiness tests, initializer calls.                                    *)
(***************************************************************************)
Globals == 1

Builtins ==
    {"clock", "Array", "max", "min", "sum", "randomrange", "abs", "random",
     "exp", "log", "sqrt", "floor", "ceil", "sin", "cos", "tanh"}

NoMethods == [x \in {} |-> 0]

NoObj ==
    [k |-> "", declaration |-> NoStmt, closure |-> 0, is_initializer |-> FALSE,
     klass |-> 0, fields |-> NoValues, name |-> "", superclass |-> 0,
     methods |-> NoMethods, elements |-> <<>>, array |-> 0]

LoxFunction(declaration, closure, is_initializer) ==
    [NoObj EXCEPT !.k = "fn", !.declaration = declaration, !.closure = closure,
                  !.is_initializer = is_initializer]

LoxClass(metaclass, name, superclass, methods) ==
    [NoObj EXCEPT !.k = "class", !.klass = metaclass, !.name = name,
                  !.superclass = superclass, !.methods = methods]

LoxInstance(klass) == [NoObj EXCEPT !.k = "inst", !.klass = klass]

LoxTrait(name, methods) == [NoObj EXCEPT !.k = "trait", !.name = name, !.methods = methods]

\* LoxArray.__init__ after its array_class is built: elements = [None] * size
LoxArray(array_class, size) ==
    [NoObj EXCEPT !.k = "array", !.klass = array_class,
                  !.elements = [i \in 1..size |-> Nil]]

\* ArrayGetCallable(elements), ArraySetCallable(elements): array is the array
\* whose list the callable holds
ArrayGetCallable(array) == [NoObj EXCEPT !.k = "ArrayGetCallable", !.array = array]
ArraySetCallable(array) == [NoObj EXCEPT !.k = "ArraySetCallable", !.array = array]

\* The new object is Len(heap).
Alloc(I, obj) == [I EXCEPT !.heap = Append(@, obj)]

NoExc == [sig |-> "", val |-> Nil, msg |-> ""]

Interpreter ==
    [envs |-> <<[enclosing |-> 0, values |-> [b \in Builtins |-> Native(b)]]>>,
     heap |-> <<>>, environment |-> Globals, locals |-> [x \in {} |-> 0],
     stack |-> <<>>, ret |-> Nil, retm |-> NoMethods, exc |-> NoExc,
     out |-> <<>>, break_frame |-> 0, break_id |-> 0, obs |-> {}]

Observe(I, ev, a, b, v) ==
    [I EXCEPT !.obs = @ \cup {[ev |-> ev, a |-> a, b |-> b, v |-> v]}]

(***************************************************************************)
(* Results of the helper methods: sig is "ok" or the class of the Python   *)
(* exception raised, val the value returned, msg the exception's message.  *)
(***************************************************************************)
Ok(I, v) == [I |-> I, sig |-> "ok", val |-> v, msg |-> ""]
Raise(I, sig, msg) == [I |-> I, sig |-> sig, val |-> Nil, msg |-> msg]
LoxRuntimeError(I, msg) == Raise(I, "LoxRuntimeError", msg)

\* Interpreter._is_truthy: bool(obj)
is_truthy(obj) ==
    CASE obj.t = "nil" -> FALSE
      [] obj.t = "bool" -> obj.n = 1
      [] obj.t = "num" -> obj.n # 0
      [] obj.t = "str" -> obj.s # ""
      [] OTHER -> TRUE

\* _is_truthy as the interpreter calls it on the value of a condition
Truthy(I, obj) ==
    [I |-> Observe(I, "truthy", IF is_truthy(obj) THEN 1 ELSE 0, 0, obj),
     b |-> is_truthy(obj)]

\* Interpreter._is_equal: a == b (Python compares bool and float by value)
is_equal(a, b) ==
    IF a.t \in {"bool", "num"} /\ b.t \in {"bool", "num"} THEN a.n = b.n ELSE a = b

IsFloat(v) == v.t = "num"

RECURSIVE Repeat(_, _)
Repeat(s, n) == IF n <= 0 THEN "" ELSE s \o Repeat(s, n - 1)

\* str(obj) of an object of the heap or of a native callable
ObjStr(I, v) ==
    CASE v.t = "fn" -> "<fn " \o I.heap[v.n].declaration.name \o ">"
      [] v.t = "class" -> I.heap[v.n].name
      [] v.t = "inst" -> I.heap[I.heap[v.n].klass].name \o " instance"
      [] v.t = "trait" -> "<trait TokenType.IDENTIFIER " \o I.heap[v.n].name \o " None>"
      [] v.t \in {"ArrayGetCallable", "ArraySetCallable"} -> "<native fn>"
      [] v.t = "native" ->
            IF v.s \in {"clock", "Array"} THEN "<native fn>"
            ELSE IF v.s = "randomrange" THEN "<native fn random_range>"
            ELSE "<native fn " \o v.s \o ">"

\* LoxArray._stringify of an element that is no array
LoxArray_stringify(I, obj) ==
    CASE obj.t = "nil" -> "nil"
      [] obj.t = "num" -> ToString(obj.n)
      [] obj.t = "bool" -> IF obj.n = 1 THEN "True" ELSE "False"
      [] obj.t = "str" -> obj.s
      [] OTHER -> ObjStr(I, obj)

\* LoxArray.__str__ without its brackets, from element i on.  path holds the
\* arrays whose __str__ is running: an element among them never ends the
\* recursion, and ok = FALSE is Python's RecursionError.
RECURSIVE LoxArray_str(_, _, _, _)
LoxArray_str(I, array, i, path) ==
    IF i > Len(I.heap[array].elements) THEN [ok |-> TRUE, s |-> ""]
    ELSE LET elem == I.heap[array].elements[i]
             inner == LoxArray_str(I, elem.n, 1, path \cup {elem.n})
             first == IF elem.t # "array" THEN [ok |-> TRUE, s |-> LoxArray_stringify(I, elem)]
                      ELSE IF elem.n \in path THEN [ok |-> FALSE, s |-> ""]
                      ELSE [ok |-> inner.ok, s |-> "[" \o inner.s \o "]"]
             rest == LoxArray_str(I, array, i + 1, path)
         IN  IF ~first.ok THEN first
             ELSE IF ~rest.ok THEN rest
             ELSE [ok |-> TRUE,
                   s |-> first.s \o (IF i < Len(I.heap[array].elements) THEN ", " ELSE "")
                         \o rest.s]

\* Interpreter._stringify; ok = FALSE with the exception it raises in sig:
\* the LoxRuntimeError for None, or the RecursionError of str(obj)
stringify(I, obj) ==
    CASE obj.t = "nil" -> [ok |-> FALSE, s |-> "", sig |-> "LoxRuntimeError"]
      [] obj.t = "num" -> [ok |-> TRUE, s |-> ToString(obj.n), sig |-> ""]
      [] obj.t = "bool" -> [ok |-> TRUE, s |-> IF obj.n = 1 THEN "True" ELSE "False", sig |-> ""]
      [] obj.t = "str" -> [ok |-> TRUE, s |-> obj.s, sig |-> ""]
      [] obj.t = "array" ->
            LET r == LoxArray_str(I, obj.n, 1, {obj.n})
            IN  IF r.ok THEN [ok |-> TRUE, s |-> "[" \o r.s \o "]", sig |-> ""]
                ELSE [ok |-> FALSE, s |-> "", sig |-> "RecursionError"]
      [] OTHER -> [ok |-> TRUE, s |-> ObjStr(I, obj), sig |-> ""]

\* Environment.get_at from the environment env
get_at(I, env, distance, name) ==
    LET anc == ancestor(I, env, distance)
    IN  IF anc = 0 THEN Raise(I, "AssertionError", "Enclosing environment is None.")
        ELSE Ok(I, DictGet(I.envs[anc].values, name))

\* Environment.assign_at
assign_at(I, env, distance, name, value) ==
    LET anc == ancestor(I, env, distance)
    IN  IF anc = 0 THEN Raise(I, "AssertionError", "Enclosing environment is None.")
        ELSE Ok(define(I, anc, name, value), value)

\* Environment.get
Environment_get(I, env, name) ==
    LET h == Holder(I, env, name)
    IN  IF h = 0 THEN LoxRuntimeError(I, "Undefined variable")
        ELSE Ok(I, I.envs[h].values[name])

\* assign as define: the binding is made in the environment itself
Environment_assign_defines(I, env, name, value) == Ok(define(I, env, name, value), value)

\* Environment.assign
Environment_assign(I, env, name, value) ==
    LET h == Holder(I, env, name)
    IN  IF h = 0 THEN LoxRuntimeError(I, "Undefined variable")
        ELSE Ok(define(I, h, name, value), value)

\* The lookup of name through the side-table entry of expression id: does the
\* environment at exactly that distance hold the name?
Hit(I, distance, name) ==
    LET anc == ancestor(I, I.environment, distance)
    IN  IF anc # 0 /\ name \in DOMAIN I.envs[anc].values THEN 1 ELSE 0

\* Interpreter._lookup_variable
lookup_variable(I, name, id) ==
    IF id \in DOMAIN I.locals
    THEN get_at(Observe(I, "lookup", id, Hit(I, I.locals[id], name), Str(name)),
                I.environment, I.locals[id], name)
    ELSE Environment_get(I, Globals, name)

\* LoxClass.find_method; 0 is None
RECURSIVE find_method(_, _, _)
find_method(I, klass, name) ==
    IF name \in DOMAIN I.heap[klass].methods THEN I.heap[klass].methods[name]
    ELSE IF I.heap[klass].superclass # 0 THEN find_method(I, I.heap[klass].superclass, name)
    ELSE 0

\* bind that defines this in the closure of the method itself
bind_in_closure(I, fn, instance) ==
    LET I2 == define(I, I.heap[fn].closure, "this", instance)
    IN  Alloc(I2, LoxFunction(I.heap[fn].declaration, I.heap[fn].closure,
                              I.heap[fn].is_initializer))

\* LoxFunction.bind: the bound function is the last object of the heap
bind(I, fn, instance) ==
    LET I1 == NewEnv(I, I.heap[fn].closure)
        environment == Len(I1.envs)
        I2 == define(I1, environment, "this", instance)
    IN  Alloc(I2, LoxFunction(I.heap[fn].declaration, environment, I.heap[fn].is_initializer))

\* LoxInstance.get with the methods of the class looked up before the fields
LoxInstance_get_method_first(I, obj, name) ==
    LET method == IF I.heap[obj.n].klass = 0 THEN 0
                  ELSE find_method(I, I.heap[obj.n].klass, name)
    IN  IF method # 0
        THEN LET I1 == bind(I, method, obj) IN Ok(I1, Ref("fn", Len(I1.heap)))
        ELSE IF name \in DOMAIN I.heap[obj.n].fields THEN Ok(I, I.heap[obj.n].fields[name])
        ELSE LoxRuntimeError(I, "Undefined property")

\* LoxInstance.get
LoxInstance_get(I, obj, name) ==
    IF name \in DOMAIN I.heap[obj.n].fields THEN Ok(I, I.heap[obj.n].fields[name])
    ELSE IF I.heap[obj.n].klass = 0 THEN LoxRuntimeError(I, "Undefined property")
    ELSE LET method == find_method(I, I.heap[obj.n].klass, name)
         IN  IF method # 0
             THEN LET I1 == bind(I, method, obj) IN Ok(I1, Ref("fn", Len(I1.heap)))
             ELSE LoxRuntimeError(I, "Undefined property")

\* LoxInstance.set
LoxInstance_set(I, obj, name, value) ==
    [I EXCEPT !.heap[obj.n].fields = (name :> value) @@ @]

IsLoxInstance(v) == v.t \in {"inst", "class", "array"}
IsLoxCallable(v) == v.t \in {"fn", "class", "native", "ArrayGetCallable", "ArraySetCallable"}

\* Python's float % for whole values: the result has the sign of the divisor
PyMod(a, b) == IF b > 0 THEN a % b ELSE 0 - ((0 - a) % (0 - b))

\* Python's float / where the quotient is whole
PyDiv(a, b) == IF b > 0 THEN a \div b ELSE (0 - a) \div (0 - b)

\* the match statement of Interpreter.visit_binary_expr
BinaryOp(I, op, left, right) ==
    LET numbers == IsFloat(left) /\ IsFloat(right)
        operands == LoxRuntimeError(I, "Operands must be numbers.")
    IN  CASE op = "MINUS" -> IF numbers THEN Ok(I, Num(left.n - right.n)) ELSE operands
          [] op = "SLASH" ->
                IF ~numbers THEN operands
                ELSE IF right.n = 0 THEN LoxRuntimeError(I, "Division by zero.")
                ELSE Ok(I, Num(PyDiv(left.n, right.n)))
          [] op = "STAR" ->
                IF numbers THEN Ok(I, Num(left.n * right.n))
                ELSE IF left.t = "str" /\ IsFloat(right) THEN Ok(I, Str(Repeat(left.s, right.n)))
                ELSE LoxRuntimeError(I, "Operands must be numbers or a string and a number.")
          [] op = "MODULO" ->
                IF ~numbers THEN operands
                ELSE IF right.n = 0 THEN LoxRuntimeError(I, "Division by zero.")
                ELSE Ok(I, Num(PyMod(left.n, right.n)))
          [] op = "PLUS" ->
                IF numbers THEN Ok(I, Num(left.n + right.n))
                ELSE IF left.t = "str" /\ right.t = "str" THEN Ok(I, Str(left.s \o right.s))
                ELSE IF left.t = "str" /\ IsFloat(right)
                     THEN Ok(I, Str(left.s \o stringify(I, right).s))
                ELSE IF IsFloat(left) /\ right.t = "str"
                     THEN Ok(I, Str(stringify(I, left).s \o right.s))
                ELSE LoxRuntimeError(I, "Operands must be two numbers or two strings.")
          [] op = "GREATER" -> IF numbers THEN Ok(I, Bool(left.n > right.n)) ELSE operands
          [] op = "GREATER_EQUAL" -> IF numbers THEN Ok(I, Bool(left.n >= right.n)) ELSE operands
          [] op = "LESS" -> IF numbers THEN Ok(I, Bool(left.n < right.n)) ELSE operands
          [] op = "LESS_EQUAL" -> IF numbers THEN Ok(I, Bool(left.n <= right.n)) ELSE operands
          [] op = "BANG_EQUAL" -> Ok(I, Bool(~is_equal(left, right)))
          [] op = "EQUAL_EQUAL" -> Ok(I, Bool(is_equal(left, right)))
          [] OTHER -> Ok(I, Nil)

\* LoxFunction.is_getter
is_getter(I, fn) == I.heap[fn].declaration.getter

\* the arity() of the native callables
NativeArity(name) ==
    CASE name \in {"clock", "random"} -> 0
      [] name \in {"max", "min", "randomrange"} -> 2
      [] OTHER -> 1

\* LoxClass.arity with the init of the class's own methods only
arity_own_init(I, callee) ==
    CASE callee.t = "fn" -> Len(I.heap[callee.n].declaration.params)
      [] callee.t = "class" ->
            IF "init" \in DOMAIN I.heap[callee.n].methods
            THEN Len(I.heap[I.heap[callee.n].methods["init"]].declaration.params)
            ELSE 0
      [] callee.t = "native" -> NativeArity(callee.s)
      [] callee.t = "ArrayGetCallable" -> 1
      [] callee.t = "ArraySetCallable" -> 2

\* LoxFunction.arity and LoxClass.arity
arity(I, callee) ==
    CASE callee.t = "fn" -> Len(I.heap[callee.n].declaration.params)
      [] callee.t = "class" ->
            LET initializer == find_method(I, callee.n, "init")
            IN  IF initializer # 0 THEN Len(I.heap[initializer].declaration.params) ELSE 0
      [] callee.t = "native" -> NativeArity(callee.s)
      [] callee.t = "ArrayGetCallable" -> 1
      [] callee.t = "ArraySetCallable" -> 2

\* for param, arg in zip(params, arguments): environment.define(param, arg)
RECURSIVE DefineParams(_, _, _, _, _)
DefineParams(I, environment, params, arguments, i) ==
    IF i > Len(params) \/ i > Len(arguments) THEN I
    ELSE DefineParams(define(I, environment, params[i], arguments[i]),
                      environment, params, arguments, i + 1)

\* the inner loop of Interpreter._apply_trait: the methods a trait offers
\* merged into methods, ok = FALSE when a name is already there
MergeTrait_replaces(methods, offered) == [ok |-> TRUE, methods |-> offered @@ methods]

MergeTrait(methods, offered) ==
    IF DOMAIN methods \cap DOMAIN offered # {} THEN [ok |-> FALSE, methods |-> methods]
    ELSE [ok |-> TRUE, methods |-> offered @@ methods]

\* {method.name.lexeme: LoxFunction(method, self._environment, ...) for method in ...}
\* laid over methods; init_name is the name that makes an initializer
RECURSIVE MakeMethods(_, _, _, _, _)
MakeMethods(I, declarations, i, methods, init_name) ==
    IF i > Len(declarations) THEN [I |-> I, methods |-> methods]
    ELSE LET d == declarations[i]
             I1 == Alloc(I, LoxFunction(d, I.environment, d.name = init_name))
         IN  MakeMethods(I1, declarations, i + 1, (d.name :> Len(I1.heap)) @@ methods,
                         init_name)

\* for method in stmt.methods of Interpreter.visit_trait_stmt
RECURSIVE TraitMethods(_, _, _, _)
TraitMethods(I, declarations, i, methods) ==
    IF i > Len(declarations) THEN [I |-> I, ok |-> TRUE, methods |-> methods]
    ELSE IF declarations[i].name \in DOMAIN methods
         THEN [I |-> I, ok |-> FALSE, methods |-> methods]
    ELSE LET I1 == Alloc(I, LoxFunction(declarations[i], I.environment, FALSE))
         IN  TraitMethods(I1, declarations, i + 1,
                          (declarations[i].name :> Len(I1.heap)) @@ methods)

(***************************************************************************)
(* The sources given to the REPL, as the statement lists Parser.parse      *)
(* returns for them (a for statement is already the Block/While/Block of   *)
(* Parser._for_statement).  The ids of the nodes of the k-th program are   *)
(* 100 * k + 1, 100 * k + 2, ... in the order the parser creates them.     *)
(***************************************************************************)
Programs ==
    <<
      \* 1 ClosureShadow: { var a = "g"; { fun f() { print a; } var a = "l";
      \*   f(); } }
      <<Block(<<Var("a", Literal(Str("g"))), Block(<<Function("f", <<>>,
        <<PrintStmt(Variable(101, "a"))>>), Var("a", Literal(Str("l"))),
        Expression(Call(Variable(102, "f"), <<>>))>>)>>)>>,
      \* 2 ClosureShared: { var n = 0; fun inc() { n = n + 1; } fun get() {
      \*   return n; } inc(); inc(); print get(); }
      <<Block(<<Var("n", Literal(Num(0))), Function("inc", <<>>,
        <<Expression(Assign(201, "n", Binary(Variable(202, "n"), "PLUS",
        Literal(Num(1)))))>>), Function("get", <<>>, <<Return(Variable(203,
        "n"))>>), Expression(Call(Variable(204, "inc"), <<>>)),
        Expression(Call(Variable(205, "inc"), <<>>)),
        PrintStmt(Call(Variable(206, "get"), <<>>))>>)>>,
      \* 3 ClosureRecursion: { fun f(n) { if (n > 0) f(n - 1); print n; }
      \*   f(2); }
      <<Block(<<Function("f", <<"n">>, <<If(Binary(Variable(301, "n"),
        "GREATER", Literal(Num(0))), Expression(Call(Variable(302, "f"),
        <<Binary(Variable(303, "n"), "MINUS", Literal(Num(1)))>>)),
        NoStmt), PrintStmt(Variable(304, "n"))>>),
        Expression(Call(Variable(305, "f"), <<Literal(Num(2))>>))>>)>>,
      \* 4 ClosureGlobal: var a = "g"; { fun f() { print a; } var a = "l";
      \*   f(); }
      <<Var("a", Literal(Str("g"))), Block(<<Function("f", <<>>,
        <<PrintStmt(Variable(401, "a"))>>), Var("a", Literal(Str("l"))),
        Expression(Call(Variable(402, "f"), <<>>))>>)>>,
      \* 5 StaticInBlock: { var x = 1; class M { class ping() { print x; } }
      \*   M.ping(); }
      <<Block(<<Var("x", Literal(Num(1))), Class("M", NoExpr, <<>>,
        <<Function("ping", <<>>, <<PrintStmt(Variable(501, "x"))>>)>>,
        <<>>), Expression(Call(Get(Variable(502, "M"), "ping"),
        <<>>))>>)>>,
      \* 6 MethodsInBlock: { var y = 7; class A { init(v) { this.v = v; }
      \*   get() { return this.v + y; } area { return y; } } class B < A {
      \*   get() { return super.get() + 1; } } var b = B(1); print b.get();
      \*   print b.area; }
      <<Block(<<Var("y", Literal(Num(7))), Class("A", NoExpr,
        <<Function("init", <<"v">>, <<Expression(SetExpr(This(601), "v",
        Variable(602, "v")))>>), Function("get", <<>>,
        <<Return(Binary(Get(This(603), "v"), "PLUS", Variable(604,
        "y")))>>), Getter("area", <<Return(Variable(605, "y"))>>)>>, <<>>,
        <<>>), Class("B", Variable(606, "A"), <<Function("get", <<>>,
        <<Return(Binary(Call(Super(607, "get"), <<>>), "PLUS",
        Literal(Num(1))))>>)>>, <<>>, <<>>), Var("b", Call(Variable(608,
        "B"), <<Literal(Num(1))>>)), PrintStmt(Call(Get(Variable(609, "b"),
        "get"), <<>>)), PrintStmt(Get(Variable(610, "b"), "area"))>>)>>,
      \* 7 TraitInBlock: { trait T { m() { print 1; } } class C with T {}
      \*   C().m(); }
      <<Block(<<Trait("T", <<>>, <<Function("m", <<>>,
        <<PrintStmt(Literal(Num(1)))>>)>>), Class("C", NoExpr, <<>>, <<>>,
        <<Variable(701, "T")>>), Expression(Call(Get(Call(Variable(702,
        "C"), <<>>), "m"), <<>>))>>)>>,
      \* 8 TraitGlobal: trait T { m() { print this.n; } } class C with T {
      \*   init() { this.n = 5; } } C().m();
      <<Trait("T", <<>>, <<Function("m", <<>>, <<PrintStmt(Get(This(801),
        "n"))>>)>>), Class("C", NoExpr, <<Function("init", <<>>,
        <<Expression(SetExpr(This(802), "n", Literal(Num(5))))>>)>>, <<>>,
        <<Variable(803, "T")>>), Expression(Call(Get(Call(Variable(804,
        "C"), <<>>), "m"), <<>>))>>,
      \* 9 TraitWithTrait: { var z = 3; trait T { m() { return z; } } trait U
      \*   with T { n() { return 2; } } print 0; }
      <<Block(<<Var("z", Literal(Num(3))), Trait("T", <<>>, <<Function("m",
        <<>>, <<Return(Variable(901, "z"))>>)>>), Trait("U",
        <<Variable(902, "T")>>, <<Function("n", <<>>,
        <<Return(Literal(Num(2)))>>)>>), PrintStmt(Literal(Num(0)))>>)>>,
      \* 10 BreakInFunction: fun f() { break; } var i = 0; while (i < 3) { i =
      \*   i + 1; f(); } print i;
      <<Function("f", <<>>, <<Break(1001)>>), Var("i", Literal(Num(0))),
        While(1002, Binary(Variable(1003, "i"), "LESS", Literal(Num(3))),
        Block(<<Expression(Assign(1004, "i", Binary(Variable(1005, "i"),
        "PLUS", Literal(Num(1))))), Expression(Call(Variable(1006, "f"),
        <<>>))>>)), PrintStmt(Variable(1007, "i"))>>,
      \* 11 BreakTopLevel: print 1; break; print 2;
      <<PrintStmt(Literal(Num(1))), Break(1101),
        PrintStmt(Literal(Num(2)))>>,
      \* 12 SubclassBadTrait: class A {} class B < A with T {} print 1;
      <<Class("A", NoExpr, <<>>, <<>>, <<>>), Class("B", Variable(1201,
        "A"), <<>>, <<>>, <<Variable(1202, "T")>>),
        PrintStmt(Literal(Num(1)))>>,
      \* 13 SubclassNotTrait: class A {} class B < A with A {} print 1;
      <<Class("A", NoExpr, <<>>, <<>>, <<>>), Class("B", Variable(1301,
        "A"), <<>>, <<>>, <<Variable(1302, "A")>>),
        PrintStmt(Literal(Num(1)))>>,
      \* 14 Truthiness: if (0) print "t"; else print "f"; if ("") print "t";
      \*   else print "f"; print nil or "n"; print false ? 1 : 2; print !nil;
      \*   print 1 and 2;
      <<If(Literal(Num(0)), PrintStmt(Literal(Str("t"))),
        PrintStmt(Literal(Str("f")))), If(Literal(Str("")),
        PrintStmt(Literal(Str("t"))), PrintStmt(Literal(Str("f")))),
        PrintStmt(Logical(Literal(Nil), "OR", Literal(Str("n")))),
        PrintStmt(Conditional(Literal(Bool(FALSE)), Literal(Num(1)),
        Literal(Num(2)))), PrintStmt(Unary("BANG", Literal(Nil))),
        PrintStmt(Logical(Literal(Num(1)), "AND", Literal(Num(2))))>>,
      \* 15 NestedBreak: { var i = 0; while (i < 2) { i = i + 1; var j = 0;
      \*   while (true) { j = j + 1; if (j == 2) break; print "in"; } print
      \*   "out"; } print "end"; }
      <<Block(<<Var("i", Literal(Num(0))), While(1501,
        Binary(Variable(1502, "i"), "LESS", Literal(Num(2))),
        Block(<<Expression(Assign(1503, "i", Binary(Variable(1504, "i"),
        "PLUS", Literal(Num(1))))), Var("j", Literal(Num(0))), While(1505,
        Literal(Bool(TRUE)), Block(<<Expression(Assign(1506, "j",
        Binary(Variable(1507, "j"), "PLUS", Literal(Num(1))))),
        If(Binary(Variable(1508, "j"), "EQUAL_EQUAL", Literal(Num(2))),
        Break(1509), NoStmt), PrintStmt(Literal(Str("in")))>>)),
        PrintStmt(Literal(Str("out")))>>)),
        PrintStmt(Literal(Str("end")))>>)>>,
      \* 16 ForBreak: for (var i = 0; i < 5; i = i + 1) { if (i == 2) break;
      \*   print i; } print "done";
      <<Block(<<Var("i", Literal(Num(0))), While(1601,
        Binary(Variable(1602, "i"), "LESS", Literal(Num(5))),
        Block(<<Block(<<If(Binary(Variable(1603, "i"), "EQUAL_EQUAL",
        Literal(Num(2))), Break(1604), NoStmt), PrintStmt(Variable(1605,
        "i"))>>), Expression(Assign(1606, "i", Binary(Variable(1607, "i"),
        "PLUS", Literal(Num(1)))))>>))>>),
        PrintStmt(Literal(Str("done")))>>,
      \* 17 BlockExits: { var u = 0; } { fun f() { { { return 1; } } } print
      \*   f(); var k = 0; while (k < 1) { { k = k + 1; { break; } } } { print
      \*   -"x"; } }
      <<Block(<<Var("u", Literal(Num(0)))>>), Block(<<Function("f", <<>>,
        <<Block(<<Block(<<Return(Literal(Num(1)))>>)>>)>>),
        PrintStmt(Call(Variable(1701, "f"), <<>>)), Var("k",
        Literal(Num(0))), While(1702, Binary(Variable(1703, "k"), "LESS",
        Literal(Num(1))), Block(<<Block(<<Expression(Assign(1704, "k",
        Binary(Variable(1705, "k"), "PLUS", Literal(Num(1))))),
        Block(<<Break(1706)>>)>>)>>)), Block(<<PrintStmt(Unary("MINUS",
        Literal(Str("x"))))>>)>>)>>,
      \* 18 BlockClassLeak: { class A {} { class B < A with A {} } }
      <<Block(<<Class("A", NoExpr, <<>>, <<>>, <<>>), Block(<<Class("B",
        Variable(1801, "A"), <<>>, <<>>, <<Variable(1802, "A")>>)>>)>>)>>,
      \* 19 InitNoReturn: { class Q { init() { this.a = 1; } } var q = Q();
      \*   print q.init(); }
      <<Block(<<Class("Q", NoExpr, <<Function("init", <<>>,
        <<Expression(SetExpr(This(1901), "a", Literal(Num(1))))>>)>>, <<>>,
        <<>>), Var("q", Call(Variable(1902, "Q"), <<>>)),
        PrintStmt(Call(Get(Variable(1903, "q"), "init"), <<>>))>>)>>,
      \* 20 InitBareReturn: { class P { init(x) { this.x = x; return; } } var
      \*   p = P(1); print p.x; print p.init(2); }
      <<Block(<<Class("P", NoExpr, <<Function("init", <<"x">>,
        <<Expression(SetExpr(This(2001), "x", Variable(2002, "x"))),
        Return(NoExpr)>>)>>, <<>>, <<>>), Var("p", Call(Variable(2003,
        "P"), <<Literal(Num(1))>>)), PrintStmt(Get(Variable(2004, "p"),
        "x")), PrintStmt(Call(Get(Variable(2005, "p"), "init"),
        <<Literal(Num(2))>>))>>)>>,
      \* 21 ErrType: print 1; print -"a"; print 2;
      <<PrintStmt(Literal(Num(1))), PrintStmt(Unary("MINUS",
        Literal(Str("a")))), PrintStmt(Literal(Num(2)))>>,
      \* 22 ErrDivZero: print (6 / 2); print 1 / (1 - 1); print 2;
      <<PrintStmt(Grouping(Binary(Literal(Num(6)), "SLASH",
        Literal(Num(2))))), PrintStmt(Binary(Literal(Num(1)), "SLASH",
        Grouping(Binary(Literal(Num(1)), "MINUS", Literal(Num(1)))))),
        PrintStmt(Literal(Num(2)))>>,
      \* 23 ErrUndefined: print undefinedvar; print 2;
      <<PrintStmt(Variable(2301, "undefinedvar")),
        PrintStmt(Literal(Num(2)))>>,
      \* 24 ErrNotCallable: "s"(); print 2;
      <<Expression(Call(Literal(Str("s")), <<>>)),
        PrintStmt(Literal(Num(2)))>>,
      \* 25 ErrArity: fun g(a) {} g(); print 2;
      <<Function("g", <<"a">>, <<>>), Expression(Call(Variable(2501, "g"),
        <<>>)), PrintStmt(Literal(Num(2)))>>,
      \* 26 ErrProperty: class E {} print E().foo; print 2;
      <<Class("E", NoExpr, <<>>, <<>>, <<>>),
        PrintStmt(Get(Call(Variable(2601, "E"), <<>>), "foo")),
        PrintStmt(Literal(Num(2)))>>,
      \* 27 ErrTraitConflict: trait T1 { m() { print 1; } } trait T2 { m() {
      \*   print 2; } } class C2 with T1, T2 {} print 3;
      <<Trait("T1", <<>>, <<Function("m", <<>>,
        <<PrintStmt(Literal(Num(1)))>>)>>), Trait("T2", <<>>,
        <<Function("m", <<>>, <<PrintStmt(Literal(Num(2)))>>)>>),
        Class("C2", NoExpr, <<>>, <<>>, <<Variable(2701, "T1"),
        Variable(2702, "T2")>>), PrintStmt(Literal(Num(3)))>>,
      \* 28 StaticError: print 1; return 1;
      <<PrintStmt(Literal(Num(1))), Return(Literal(Num(1)))>>,
      \* 29 ErrSuperclass: var NotAClass = 1; class D < NotAClass {} print 3;
      <<Var("NotAClass", Literal(Num(1))), Class("D", Variable(2901,
        "NotAClass"), <<>>, <<>>, <<>>), PrintStmt(Literal(Num(3)))>>,
      \* 30 ClosureCounter: { fun mk() { var c = 0; fun inc() { c = c + 1;
      \*   return c; } return inc; } var a = mk(); var b = mk(); a(); print
      \*   a(); print b(); }
      <<Block(<<Function("mk", <<>>, <<Var("c", Literal(Num(0))),
        Function("inc", <<>>, <<Expression(Assign(3001, "c",
        Binary(Variable(3002, "c"), "PLUS", Literal(Num(1))))),
        Return(Variable(3003, "c"))>>), Return(Variable(3004, "inc"))>>),
        Var("a", Call(Variable(3005, "mk"), <<>>)), Var("b",
        Call(Variable(3006, "mk"), <<>>)), Expression(Call(Variable(3007,
        "a"), <<>>)), PrintStmt(Call(Variable(3008, "a"), <<>>)),
        PrintStmt(Call(Variable(3009, "b"), <<>>))>>)>>,
      \* 31 BreakInCalledLoop: { fun f() { while (true) { break; } print "f";
      \*   } var i = 0; while (i < 2) { i = i + 1; f(); } print i; }
      <<Block(<<Function("f", <<>>, <<While(3101, Literal(Bool(TRUE)),
        Block(<<Break(3102)>>)), PrintStmt(Literal(Str("f")))>>), Var("i",
        Literal(Num(0))), While(3103, Binary(Variable(3104, "i"), "LESS",
        Literal(Num(2))), Block(<<Expression(Assign(3105, "i",
        Binary(Variable(3106, "i"), "PLUS", Literal(Num(1))))),
        Expression(Call(Variable(3107, "f"), <<>>))>>)),
        PrintStmt(Variable(3108, "i"))>>)>>,
      \* 32 TraitUnion: trait T1 { a() { print 1; } } trait T2 { b() { print
      \*   2; } } class C with T1, T2 { c() { print 3; } } var o = C(); o.a();
      \*   o.b(); o.c();
      <<Trait("T1", <<>>, <<Function("a", <<>>,
        <<PrintStmt(Literal(Num(1)))>>)>>), Trait("T2", <<>>,
        <<Function("b", <<>>, <<PrintStmt(Literal(Num(2)))>>)>>),
        Class("C", NoExpr, <<Function("c", <<>>,
        <<PrintStmt(Literal(Num(3)))>>)>>, <<>>, <<Variable(3201, "T1"),
        Variable(3202, "T2")>>), Var("o", Call(Variable(3203, "C"), <<>>)),
        Expression(Call(Get(Variable(3204, "o"), "a"), <<>>)),
        Expression(Call(Get(Variable(3205, "o"), "b"), <<>>)),
        Expression(Call(Get(Variable(3206, "o"), "c"), <<>>))>>,
      \* 33 TraitOverride: trait T1 { a() { print 1; } b() { print 2; } }
      \*   class C with T1 { a() { print 3; } } C().a(); C().b();
      <<Trait("T1", <<>>, <<Function("a", <<>>,
        <<PrintStmt(Literal(Num(1)))>>), Function("b", <<>>,
        <<PrintStmt(Literal(Num(2)))>>)>>), Class("C", NoExpr,
        <<Function("a", <<>>, <<PrintStmt(Literal(Num(3)))>>)>>, <<>>,
        <<Variable(3301, "T1")>>), Expression(Call(Get(Call(Variable(3302,
        "C"), <<>>), "a"), <<>>)), Expression(Call(Get(Call(Variable(3303,
        "C"), <<>>), "b"), <<>>))>>,
      \* 34 PropertyLookup: class A { n() { return this.v; } k() { return "A";
      \*   } } class B < A { k() { return "B"; } } class C < B {} var c = C();
      \*   c.v = 9; print c.n(); print c.k(); c.k = 2; print c.k; print c.z;
      <<Class("A", NoExpr, <<Function("n", <<>>, <<Return(Get(This(3401),
        "v"))>>), Function("k", <<>>, <<Return(Literal(Str("A")))>>)>>,
        <<>>, <<>>), Class("B", Variable(3402, "A"), <<Function("k", <<>>,
        <<Return(Literal(Str("B")))>>)>>, <<>>, <<>>), Class("C",
        Variable(3403, "B"), <<>>, <<>>, <<>>), Var("c",
        Call(Variable(3404, "C"), <<>>)), Expression(SetExpr(Variable(3405,
        "c"), "v", Literal(Num(9)))), PrintStmt(Call(Get(Variable(3406,
        "c"), "n"), <<>>)), PrintStmt(Call(Get(Variable(3407, "c"), "k"),
        <<>>)), Expression(SetExpr(Variable(3408, "c"), "k",
        Literal(Num(2)))), PrintStmt(Get(Variable(3409, "c"), "k")),
        PrintStmt(Get(Variable(3410, "c"), "z"))>>,
      \* 35 SuperChain: class A { m() { print this.n; } } class B < A { m() {
      \*   print "B"; } t() { super.m(); } } class C < B { m() { print "C"; }
      \*   } var c = C(); c.n = 5; c.t();
      <<Class("A", NoExpr, <<Function("m", <<>>,
        <<PrintStmt(Get(This(3501), "n"))>>)>>, <<>>, <<>>), Class("B",
        Variable(3502, "A"), <<Function("m", <<>>,
        <<PrintStmt(Literal(Str("B")))>>), Function("t", <<>>,
        <<Expression(Call(Super(3503, "m"), <<>>))>>)>>, <<>>, <<>>),
        Class("C", Variable(3504, "B"), <<Function("m", <<>>,
        <<PrintStmt(Literal(Str("C")))>>)>>, <<>>, <<>>), Var("c",
        Call(Variable(3505, "C"), <<>>)), Expression(SetExpr(Variable(3506,
        "c"), "n", Literal(Num(5)))), Expression(Call(Get(Variable(3507,
        "c"), "t"), <<>>))>>,
      \* 36 SuperStatic: class A { m() { print "A"; } } class B < A { class
      \*   s() { super.m(); } } B.s();
      <<Class("A", NoExpr, <<Function("m", <<>>,
        <<PrintStmt(Literal(Str("A")))>>)>>, <<>>, <<>>), Class("B",
        Variable(3601, "A"), <<>>, <<Function("s", <<>>,
        <<Expression(Call(Super(3602, "m"), <<>>))>>)>>, <<>>),
        Expression(Call(Get(Variable(3603, "B"), "s"), <<>>))>>,
      \* 37 ClassProperty: class A { m() { print "inst"; } class s() { print
      \*   this; } } class B < A {} A.s(); A.x = 4; print A.x; B.m();
      <<Class("A", NoExpr, <<Function("m", <<>>,
        <<PrintStmt(Literal(Str("inst")))>>)>>, <<Function("s", <<>>,
        <<PrintStmt(This(3701))>>)>>, <<>>), Class("B", Variable(3702,
        "A"), <<>>, <<>>, <<>>), Expression(Call(Get(Variable(3703, "A"),
        "s"), <<>>)), Expression(SetExpr(Variable(3704, "A"), "x",
        Literal(Num(4)))), PrintStmt(Get(Variable(3705, "A"), "x")),
        Expression(Call(Get(Variable(3706, "B"), "m"), <<>>))>>,
      \* 38 ArityInherited: class A { init(a) { print "i"; } } class B < A {}
      \*   B();
      <<Class("A", NoExpr, <<Function("init", <<"a">>,
        <<PrintStmt(Literal(Str("i")))>>)>>, <<>>, <<>>), Class("B",
        Variable(3801, "A"), <<>>, <<>>, <<>>),
        Expression(Call(Variable(3802, "B"), <<>>))>>,
      \* 39 ArityNoInit: class N {} N(1);
      <<Class("N", NoExpr, <<>>, <<>>, <<>>),
        Expression(Call(Variable(3901, "N"), <<Literal(Num(1))>>))>>,
      \* 40 ArityNative: print abs(1, 2);
      <<PrintStmt(Call(Variable(4001, "abs"), <<Literal(Num(1)),
        Literal(Num(2))>>))>>,
      \* 41 ArrayNegative: var a = Array(3); a.set(-1, 7); print a; print
      \*   a.get(-1);
      <<Var("a", Call(Variable(4101, "Array"), <<Literal(Num(3))>>)),
        Expression(Call(Get(Variable(4102, "a"), "set"), <<Unary("MINUS",
        Literal(Num(1))), Literal(Num(7))>>)), PrintStmt(Variable(4103,
        "a")), PrintStmt(Call(Get(Variable(4104, "a"), "get"),
        <<Unary("MINUS", Literal(Num(1)))>>))>>,
      \* 42 ArrayGetOut: var a = Array(2); print a.get(2);
      <<Var("a", Call(Variable(4201, "Array"), <<Literal(Num(2))>>)),
        PrintStmt(Call(Get(Variable(4202, "a"), "get"),
        <<Literal(Num(2))>>))>>,
      \* 43 ArraySetOut: var a = Array(1); a.set(1, 7);
      <<Var("a", Call(Variable(4301, "Array"), <<Literal(Num(1))>>)),
        Expression(Call(Get(Variable(4302, "a"), "set"), <<Literal(Num(1)),
        Literal(Num(7))>>))>>,
      \* 44 ArrayShared: var a = Array(2); var g = a.get; a.set(1, "s"); print
      \*   g(1); print a.get(1); print a.length; print a; a.x = 1;
      <<Var("a", Call(Variable(4401, "Array"), <<Literal(Num(2))>>)),
        Var("g", Get(Variable(4402, "a"), "get")),
        Expression(Call(Get(Variable(4403, "a"), "set"), <<Literal(Num(1)),
        Literal(Str("s"))>>)), PrintStmt(Call(Variable(4404, "g"),
        <<Literal(Num(1))>>)), PrintStmt(Call(Get(Variable(4405, "a"),
        "get"), <<Literal(Num(1))>>)), PrintStmt(Get(Variable(4406, "a"),
        "length")), PrintStmt(Variable(4407, "a")),
        Expression(SetExpr(Variable(4408, "a"), "x", Literal(Num(1))))>>,
      \* 45 ArrayConvert: var a = Array("2"); print a.length; a.set(true, 4);
      \*   print a.get("1"); print a.get(nil);
      <<Var("a", Call(Variable(4501, "Array"), <<Literal(Str("2"))>>)),
        PrintStmt(Get(Variable(4502, "a"), "length")),
        Expression(Call(Get(Variable(4503, "a"), "set"),
        <<Literal(Bool(TRUE)), Literal(Num(4))>>)),
        PrintStmt(Call(Get(Variable(4504, "a"), "get"),
        <<Literal(Str("1"))>>)), PrintStmt(Call(Get(Variable(4505, "a"),
        "get"), <<Literal(Nil)>>))>>,
      \* 46 PrintValues: print true; print 1; print "s"; fun f() {} print f;
      \*   class A {} print A; print A(); print clock; print Array(1); print
      \*   nil;
      <<PrintStmt(Literal(Bool(TRUE))), PrintStmt(Literal(Num(1))),
        PrintStmt(Literal(Str("s"))), Function("f", <<>>, <<>>),
        PrintStmt(Variable(4601, "f")), Class("A", NoExpr, <<>>, <<>>,
        <<>>), PrintStmt(Variable(4602, "A")),
        PrintStmt(Call(Variable(4603, "A"), <<>>)),
        PrintStmt(Variable(4604, "clock")), PrintStmt(Call(Variable(4605,
        "Array"), <<Literal(Num(1))>>)), PrintStmt(Literal(Nil))>>,
      \* 47 PrintCycle: var a = Array(1); a.set(0, a); print a;
      <<Var("a", Call(Variable(4701, "Array"), <<Literal(Num(1))>>)),
        Expression(Call(Get(Variable(4702, "a"), "set"), <<Literal(Num(0)),
        Variable(4703, "a")>>)), PrintStmt(Variable(4704, "a"))>>,
      \* 48 ResolveErrors: { var a = 1; print a; var a = 2; { var b = b; } }
      \*   return 1; print this;
      <<Block(<<Var("a", Literal(Num(1))), PrintStmt(Variable(4801, "a")),
        Var("a", Literal(Num(2))), Block(<<Var("b", Variable(4802,
        "b"))>>)>>), Return(Literal(Num(1))), PrintStmt(This(4803))>>,
      \* 49 BoundMethod: class A { init(n) { this.n = n; } who() { print
      \*   this.n; } cb() { fun g() { print this.n; } return g; } } var a =
      \*   A("a"); var b = A("b"); var m = a.who; b.f = m; m(); b.f();
      \*   b.who(); var g = b.cb(); a.n = "c"; m(); g();
      <<Class("A", NoExpr, <<Function("init", <<"n">>,
        <<Expression(SetExpr(This(4901), "n", Variable(4902, "n")))>>),
        Function("who", <<>>, <<PrintStmt(Get(This(4903), "n"))>>),
        Function("cb", <<>>, <<Function("g", <<>>,
        <<PrintStmt(Get(This(4904), "n"))>>), Return(Variable(4905,
        "g"))>>)>>, <<>>, <<>>), Var("a", Call(Variable(4906, "A"),
        <<Literal(Str("a"))>>)), Var("b", Call(Variable(4907, "A"),
        <<Literal(Str("b"))>>)), Var("m", Get(Variable(4908, "a"), "who")),
        Expression(SetExpr(Variable(4909, "b"), "f", Variable(4910, "m"))),
        Expression(Call(Variable(4911, "m"), <<>>)),
        Expression(Call(Get(Variable(4912, "b"), "f"), <<>>)),
        Expression(Call(Get(Variable(4913, "b"), "who"), <<>>)), Var("g",
        Call(Get(Variable(4914, "b"), "cb"), <<>>)),
        Expression(SetExpr(Variable(4915, "a"), "n", Literal(Str("c")))),
        Expression(Call(Variable(4916, "m"), <<>>)),
        Expression(Call(Variable(4917, "g"), <<>>))>>,
      \* 50 ShortCircuit: fun f() { print "f"; return 7; } print nil or f();
      \*   print 1 and f(); print 2 or f(); print false and f(); print true ?
      \*   1 : f(); print 0 or f();
      <<Function("f", <<>>, <<PrintStmt(Literal(Str("f"))),
        Return(Literal(Num(7)))>>), PrintStmt(Logical(Literal(Nil), "OR",
        Call(Variable(5001, "f"), <<>>))),
        PrintStmt(Logical(Literal(Num(1)), "AND", Call(Variable(5002, "f"),
        <<>>))), PrintStmt(Logical(Literal(Num(2)), "OR",
        Call(Variable(5003, "f"), <<>>))),
        PrintStmt(Logical(Literal(Bool(FALSE)), "AND", Call(Variable(5004,
        "f"), <<>>))), PrintStmt(Conditional(Literal(Bool(TRUE)),
        Literal(Num(1)), Call(Variable(5005, "f"), <<>>))),
        PrintStmt(Logical(Literal(Num(0)), "OR", Call(Variable(5006, "f"),
        <<>>)))>>>>

(***************************************************************************)
(* Source texts that run scans and parses itself, as sequences of          *)
(* characters; they follow the programs of Programs in the numbering of    *)
(* the sources.                                                            *)
(***************************************************************************)
Sources ==
    <<
      \* 1 a program without an error: print 1;
      <<"p", "r", "i", "n", "t", " ", "1", ";">>,
      \* 2 a character the scanner does not accept: @print 1;
      <<"@", "p", "r", "i", "n", "t", " ", "1", ";">>,
      \* 3 a statement without its semicolon: print 1
      <<"p", "r", "i", "n", "t", " ", "1">>,
      \* 4 an unterminated string: "a
      <<"\"", "a">>,
      \* 5 a return outside a function: return 1;
      <<"r", "e", "t", "u", "r", "n", " ", "1", ";">>,
      \* 6 an undefined variable: print a;
      <<"p", "r", "i", "n", "t", " ", "a", ";">>,
      \* 7 a nested block comment that is not closed: /*/*
      <<"/", "*", "/", "*">>,
      \* 8 a for loop that breaks, its variable read after it:
      \* var i=0;for(var j=0;i<3;i=i+1){print i;if(i==1)break;}print i;print j;
      <<"v", "a", "r", " ", "i", "=", "0", ";", "f", "o", "r", "(", "v", "a",
        "r", " ", "j", "=", "0", ";", "i", "<", "3", ";", "i", "=", "i", "+",
        "1", ")", "{", "p", "r", "i", "n", "t", " ", "i", ";", "i", "f", "(",
        "i", "=", "=", "1", ")", "b", "r", "e", "a", "k", ";", "}", "p", "r",
        "i", "n", "t", " ", "i", ";", "p", "r", "i", "n", "t", " ", "j", ";">>,
      \* 9 the same loop written as a block and a while loop:
      \* var i=0;{var j=0;while(i<3){{print i;if(i==1)break;}i=i+1;}}print i;print j;
      <<"v", "a", "r", " ", "i", "=", "0", ";", "{", "v", "a", "r", " ", "j",
        "=", "0", ";", "w", "h", "i", "l", "e", "(", "i", "<", "3", ")", "{",
        "{", "p", "r", "i", "n", "t", " ", "i", ";", "i", "f", "(", "i", "=",
        "=", "1", ")", "b", "r", "e", "a", "k", ";", "}", "i", "=", "i", "+",
        "1", ";", "}", "}", "p", "r", "i", "n", "t", " ", "i", ";", "p", "r",
        "i", "n", "t", " ", "j", ";">>,
      \* 10 a for loop without clauses:
      \* for(;;){print 1;break;}
      <<"f", "o", "r", "(", ";", ";", ")", "{", "p", "r", "i", "n", "t", " ",
        "1", ";", "b", "r", "e", "a", "k", ";", "}">>,
      \* 11 the same loop as a while loop:
      \* while(true){print 1;break;}
      <<"w", "h", "i", "l", "e", "(", "t", "r", "u", "e", ")", "{", "p", "r",
        "i", "n", "t", " ", "1", ";", "b", "r", "e", "a", "k", ";", "}">>>>

(***************************************************************************)
(* The REPL (src/lox/lox.py, run_prompt and run) on one interpreter and    *)
(* one error handler.  session is the list of the sources entered so far,  *)
(* the last one being the source in hand; phase is where run_prompt is:    *)
(* "prompt" (waiting for input), "resolve" (in Resolver.resolve),          *)
(* "interpret" (in Interpreter.interpret, before statement pc), "done"     *)
(* (run returned or raised after interpret), "failed" (run returned after  *)
(* a static error).  errors is the error handler's list, resolver the      *)
(* Resolver of the run, caught the message of the LoxRuntimeError that     *)
(* interpret printed, escaped the class of the exception that left         *)
(* run.  In file mode (run_file) there is one source, and "exit" is the    *)
(* phase after the process has ended with exit_code (-1 until then).  A    *)
(* source is a program of Programs, for which run has scanned and parsed   *)
(* the statements without an error, or a text of Sources: then scanner and *)
(* parser are the Scanner and the Parser of the run, and the phases "scan" *)
(* (before scan_tokens) and "parse" (before Parser.parse) come first.      *)
(***************************************************************************)
VARIABLES interp, resolver, session, phase, pc, errors, caught, escaped,
          scanner, parser, mode, exit_code

vars ==
    <<interp, resolver, session, phase, pc, errors, caught, escaped,
      scanner, parser, mode, exit_code>>

Statements == parser.statements

(***************************************************************************)
(* The call stack.  A visit method runs in steps: it runs up to its next   *)
(* nested call (self._evaluate, self._execute, _execute_block,             *)
(* _apply_trait, call), which pushes a frame, and goes on from pc when     *)
(* that frame has returned, with the returned value in ret.                *)
(***************************************************************************)
Frame(f, node) ==
    [f |-> f, node |-> node, pc |-> 0, vals |-> <<>>, a |-> 0, b |-> 0, m |-> NoMethods]

Top(I) == I.stack[Len(I.stack)]

Pop(I) == [I EXCEPT !.stack = SubSeq(@, 1, Len(@) - 1)]

Push(I, frame) == [I EXCEPT !.stack = Append(@, frame)]

\* the running method goes on from pc after its next nested call
At(I, to) == [I EXCEPT !.stack[Len(I.stack)].pc = to]

\* return v
Returns(I, v) == [Pop(I) EXCEPT !.ret = v]

\* raise
Throws(I, sig, val, msg) == [Pop(I) EXCEPT !.exc = [sig |-> sig, val |-> val, msg |-> msg]]

\* the running method returns what a helper returned, or lets its exception out
Complete(r) == IF r.sig = "ok" THEN Returns(r.I, r.val) ELSE Throws(r.I, r.sig, r.val, r.msg)

\* Interpreter._evaluate: expr.accept(self)
evaluate(I, expr) == Push(I, Frame(expr.k, expr))

\* Interpreter._execute: stmt.accept(self)
execute(I, stmt) == Push(I, Frame(stmt.k, stmt))

\* the number of LoxFunction.call frames on the stack
CallDepth(I) == Cardinality({i \in DOMAIN I.stack : I.stack[i].f = "LoxFunction_call"})

\* the except and finally clauses: does the frame take the exception?
Handles(frame, exc) ==
    \/ frame.f = "execute_block"
    \/ frame.f = "While" /\ frame.pc = 2 /\ exc.sig = "BreakException"
    \/ frame.f = "LoxFunction_call" /\ frame.pc = 1 /\ exc.sig = "ReturnException"

\* the method f of the top frame is running (or takes the exception)
Running(f) ==
    /\ phase = "interpret"
    /\ interp.stack # <<>>
    /\ Top(interp).f = f
    /\ IF interp.exc.sig = "" THEN TRUE ELSE Handles(Top(interp), interp.exc)
    /\ UNCHANGED <<resolver, session, phase, pc, errors, caught, escaped,
                   scanner, parser, mode, exit_code>>

(***************************************************************************)
(* Expressions (Interpreter.visit_*_expr) and calls.                       *)
(***************************************************************************)
visit_literal_expr ==
    /\ Running("Literal")
    /\ interp' = LET I == interp IN Returns(I, Top(I).node.value)

visit_grouping_expr ==
    /\ Running("Grouping")
    /\ interp' = LET I == interp IN
        IF Top(I).pc = 0 THEN evaluate(At(I, 1), Top(I).node.expression)
        ELSE Returns(I, I.ret)

visit_unary_expr ==
    /\ Running("Unary")
    /\ interp' = LET I == interp IN
        LET expr == Top(I).node
            right == I.ret
        IN  IF Top(I).pc = 0 THEN evaluate(At(I, 1), expr.right)
            ELSE CASE expr.operator = "MINUS" ->
                        IF IsFloat(right) THEN Returns(I, Num(0 - right.n))
                        ELSE Complete(LoxRuntimeError(I, "Operand must be a number."))
                   [] expr.operator = "BANG" ->
                        LET t == Truthy(I, right) IN Returns(t.I, Bool(~t.b))
                   [] OTHER -> Returns(I, Nil)

visit_binary_expr ==
    /\ Running("Binary")
    /\ interp' = LET I == interp IN
        LET expr == Top(I).node
        IN  CASE Top(I).pc = 0 -> evaluate(At(I, 1), expr.left)
              [] Top(I).pc = 1 ->
                    evaluate([At(I, 2) EXCEPT !.stack[Len(I.stack)].vals = <<I.ret>>], expr.right)
              [] Top(I).pc = 2 -> Complete(BinaryOp(I, expr.operator, Top(I).vals[1], I.ret))

visit_variable_expr ==
    /\ Running("Variable")
    /\ interp' = LET I == interp IN
        Complete(lookup_variable(I, Top(I).node.name, Top(I).node.id))

visit_this_expr ==
    /\ Running("This")
    /\ interp' = LET I == interp IN Complete(lookup_variable(I, "this", Top(I).node.id))

visit_assign_expr ==
    /\ Running("Assign")
    /\ interp' = LET I == interp IN
        LET expr == Top(I).node
            value == I.ret
        IN  IF Top(I).pc = 0 THEN evaluate(At(I, 1), expr.value)
            ELSE IF expr.id \in DOMAIN I.locals
                 THEN Complete(assign_at(Observe(I, "lookup", expr.id,
                                                 Hit(I, I.locals[expr.id], expr.name),
                                                 Str(expr.name)),
                                         I.environment, I.locals[expr.id], expr.name, value))
                 ELSE Complete(Environment_assign(I, Globals, expr.name, value))

visit_conditional_expr ==
    /\ Running("Conditional")
    /\ interp' = LET I == interp IN
        LET expr == Top(I).node
            t == Truthy(I, I.ret)
        IN  CASE Top(I).pc = 0 -> evaluate(At(I, 1), expr.condition)
              [] Top(I).pc = 1 ->
                    IF t.b THEN evaluate(At(t.I, 2), expr.then_branch)
                    ELSE evaluate(At(t.I, 2), expr.else_branch)
              [] Top(I).pc = 2 -> Returns(I, I.ret)

visit_logical_expr ==
    /\ Running("Logical")
    /\ interp' = LET I == interp IN
        LET expr == Top(I).node
            left == I.ret
            t == Truthy(I, left)
        IN  CASE Top(I).pc = 0 -> evaluate(At(I, 1), expr.left)
              [] Top(I).pc = 1 ->
                    IF expr.operator = "OR"
                    THEN IF t.b THEN Returns(t.I, left) ELSE evaluate(At(t.I, 2), expr.right)
                    ELSE IF ~t.b THEN Returns(t.I, left) ELSE evaluate(At(t.I, 2), expr.right)
              [] Top(I).pc = 2 -> Returns(I, I.ret)

\* LoxArray.get
LoxArray_get(I, array, name) ==
    CASE name = "get" ->
            Ok(Alloc(I, ArrayGetCallable(array)), Ref("ArrayGetCallable", Len(I.heap) + 1))
      [] name = "set" ->
            Ok(Alloc(I, ArraySetCallable(array)), Ref("ArraySetCallable", Len(I.heap) + 1))
      [] name = "length" -> Ok(I, Num(Len(I.heap[array].elements)))
      [] OTHER -> LoxRuntimeError(I, "Undefined property '" \o name \o "'.")

\* LoxArray.set
LoxArray_set(I, array, name, value) == LoxRuntimeError(I, "Can't add properties to arrays.")

visit_set_expr ==
    /\ Running("Set")
    /\ interp' = LET I == interp IN
        LET expr == Top(I).node
        IN  CASE Top(I).pc = 0 -> evaluate(At(I, 1), expr.object)
              [] Top(I).pc = 1 ->
                    IF ~IsLoxInstance(I.ret)
                    THEN Complete(LoxRuntimeError(I, "Only instances have fields."))
                    ELSE evaluate([At(I, 2) EXCEPT !.stack[Len(I.stack)].vals = <<I.ret>>],
                                  expr.value)
              [] Top(I).pc = 2 ->
                    IF Top(I).vals[1].t = "array"
                    THEN Complete(LoxArray_set(I, Top(I).vals[1].n, expr.name, I.ret))
                    ELSE Returns(LoxInstance_set(I, Top(I).vals[1], expr.name, I.ret), I.ret)

visit_super_expr ==
    /\ Running("Super")
    /\ interp' = LET I == interp IN
        LET expr == Top(I).node
        IN  IF expr.id \notin DOMAIN I.locals THEN Throws(I, "KeyError", Nil, "")
        ELSE LET distance == I.locals[expr.id]
                 hit == IF Hit(I, distance, "super") = 1 /\ Hit(I, distance - 1, "this") = 1
                        THEN 1 ELSE 0
                 I1 == Observe(I, "lookup", expr.id, hit, Str("super"))
                 superclass == get_at(I1, I1.environment, distance, "super")
                 obj == get_at(I1, I1.environment, distance - 1, "this")
             IN  IF superclass.sig # "ok" THEN Complete(superclass)
                 ELSE IF obj.sig # "ok" THEN Complete(obj)
                 ELSE IF superclass.val.t # "class"
                      THEN Throws(I1, "AttributeError", Nil, "object has no attribute 'find_method'")
                 ELSE LET method == find_method(I1, superclass.val.n, expr.method)
                      IN  IF method = 0 THEN Throws(I1, "RuntimeError", Nil, "Undefined property")
                          ELSE LET I2 == bind(I1, method, obj.val)
                               IN  Returns(I2, Ref("fn", Len(I2.heap)))

\* function.call(self, arguments): the frame of LoxFunction.call or LoxClass.call
call(I, callee, arguments) ==
    Push(I, [Frame(IF callee.t = "class" THEN "LoxClass_call" ELSE "LoxFunction_call", NoStmt)
             EXCEPT !.a = callee.n, !.vals = arguments])

\* the whole numbers float() reads from a string of digits
MaxInt == 9

\* int(float(x)): sig is "" or the exception Python raises.  The numbers of
\* the model are whole, so a number is its own truncation; True and False
\* are 1 and 0, a string is read as a number, anything else is a TypeError.
PyInt(x) ==
    CASE x.t = "num" -> [sig |-> "", n |-> x.n]
      [] x.t = "bool" -> [sig |-> "", n |-> x.n]
      [] x.t = "str" ->
            IF \E n \in -MaxInt..MaxInt : ToString(n) = x.s
            THEN [sig |-> "", n |-> CHOOSE n \in -MaxInt..MaxInt : ToString(n) = x.s]
            ELSE [sig |-> "ValueError", n |-> 0]
      [] OTHER -> [sig |-> "TypeError", n |-> 0]

\* the position elements[index] names in a Python list (1-based here), 0 for
\* an IndexError: an index from -len to -1 counts from the end
PyIndex(elements, index) ==
    IF 0 <= index /\ index < Len(elements) THEN index + 1
    ELSE IF -Len(elements) <= index /\ index < 0 THEN Len(elements) + index + 1
    ELSE 0

\* ArrayCallable.call: LoxArray(int(float(arguments[0])))
ArrayCallable_call(I, arguments) ==
    LET size == PyInt(arguments[1])
        I1 == Alloc(I, LoxClass(0, "Array", 0, NoMethods))
        I2 == Alloc(I1, LoxArray(Len(I1.heap), size.n))
    IN  IF size.sig # "" THEN Raise(I, size.sig, "")
        ELSE Ok(I2, Ref("array", Len(I2.heap)))

\* ArrayGetCallable.call
ArrayGetCallable_call(I, callable, arguments) ==
    LET elements == I.heap[I.heap[callable].array].elements
        index == PyInt(arguments[1])
    IN  IF index.sig # "" \/ PyIndex(elements, index.n) = 0
        THEN LoxRuntimeError(I, "Index out of bounds or invalid index type.")
        ELSE Ok(I, elements[PyIndex(elements, index.n)])

\* ArraySetCallable.call as elements.append(value)
ArraySetCallable_call_append(I, callable, arguments) ==
    LET array == I.heap[callable].array
        value == arguments[2]
    IN  Ok([I EXCEPT !.heap[array].elements = Append(@, value)], value)

\* ArraySetCallable.call
ArraySetCallable_call(I, callable, arguments) ==
    LET array == I.heap[callable].array
        elements == I.heap[array].elements
        index == PyInt(arguments[1])
        value == arguments[2]
    IN  IF index.sig # "" \/ PyIndex(elements, index.n) = 0
        THEN LoxRuntimeError(I, "Index out of bounds or invalid index type.")
        ELSE Ok([I EXCEPT !.heap[array].elements[PyIndex(elements, index.n)] = value], value)

\* AbsCallable.call
AbsCallable_call(I, arguments) ==
    IF arguments[1].t \notin {"num", "bool"}
    THEN LoxRuntimeError(I, "Argument to abs() must be a number.")
    ELSE Ok(I, Num(IF arguments[1].n < 0 THEN -arguments[1].n ELSE arguments[1].n))

\* callee.call(self, arguments) of the callables that run no Lox code: the
\* result of the call.  Of the native functions the programs call Array and abs.
native_call(I, callee, arguments) ==
    CASE callee.t = "ArrayGetCallable" -> ArrayGetCallable_call(I, callee.n, arguments)
      [] callee.t = "ArraySetCallable" -> ArraySetCallable_call(I, callee.n, arguments)
      [] callee.t = "native" /\ callee.s = "Array" -> ArrayCallable_call(I, arguments)
      [] callee.t = "native" /\ callee.s = "abs" -> AbsCallable_call(I, arguments)

\* vals is the callee followed by the arguments evaluated so far
visit_call_expr ==
    /\ Running("Call")
    /\ interp' = LET I == interp IN
        LET expr == Top(I).node
            vals == Append(Top(I).vals, I.ret)
            callee == vals[1]
            arguments == Tail(vals)
            I1 == [I EXCEPT !.stack[Len(I.stack)].vals = vals]
        IN  CASE Top(I).pc = 0 -> evaluate(At(I, 1), expr.callee)
              [] Top(I).pc = 1 ->
                    IF Len(arguments) < Len(expr.arguments)
                    THEN evaluate(I1, expr.arguments[Len(arguments) + 1])
                    ELSE IF ~IsLoxCallable(callee)
                         THEN Complete(LoxRuntimeError(I1, "Can only call functions and classes."))
                    ELSE IF Len(arguments) # arity(I1, callee)
                         THEN Complete(LoxRuntimeError(I1,
                                  "Expected " \o ToString(arity(I1, callee))
                                  \o " arguments but got " \o ToString(Len(arguments)) \o "."))
                    ELSE IF callee.t \notin {"fn", "class"}
                         THEN Complete(native_call(I1, callee, arguments))
                    ELSE call(At(I1, 2), callee, arguments)
              [] Top(I).pc = 2 -> Returns(I, I.ret)

visit_get_expr ==
    /\ Running("Get")
    /\ interp' = LET I == interp IN
        LET expr == Top(I).node
            obj == I.ret
            result == IF obj.t = "array" THEN LoxArray_get(I, obj.n, expr.name)
                      ELSE LoxInstance_get(I, obj, expr.name)
        IN  CASE Top(I).pc = 0 -> evaluate(At(I, 1), expr.object)
              [] Top(I).pc = 1 ->
                    IF ~IsLoxInstance(obj)
                    THEN Complete(LoxRuntimeError(I, "Only instances have properties."))
                    ELSE IF result.sig = "ok" /\ result.val.t = "fn"
                            /\ is_getter(result.I, result.val.n)
                         THEN call(At(result.I, 2), result.val, <<>>)
                    ELSE Complete(result)
              [] Top(I).pc = 2 -> Returns(I, I.ret)

\* LoxFunction.call with Environment(interpreter._environment) in the place of
\* Environment(self.closure): the caller's environment encloses the call's
LoxFunction_call_dynamic ==
    /\ Running("LoxFunction_call")
    /\ interp' = LET I == interp IN
        LET f == I.heap[Top(I).a]
            I1 == NewEnv(At(I, 1), I.environment)
            environment == Len(I1.envs)
            I2 == DefineParams(I1, environment, f.declaration.params, Top(I).vals, 1)
            this == get_at(I, f.closure, 0, "this").val
            returned == I.exc.sig = "ReturnException"
            value == IF returned THEN I.exc.val ELSE IF f.is_initializer THEN this ELSE Nil
            J == IF f.is_initializer
                 THEN Observe(I, "initializer", IF value = this THEN 1 ELSE 0,
                              IF returned THEN 1 ELSE 0, this)
                 ELSE I
        IN  IF Top(I).pc = 0
            THEN Push(I2, [Frame("execute_block", Block(f.declaration.body))
                           EXCEPT !.b = environment])
            ELSE Returns([J EXCEPT !.exc = NoExc], value)

\* LoxFunction.call on the function object a with the arguments vals
LoxFunction_call ==
    /\ Running("LoxFunction_call")
    /\ interp' = LET I == interp IN
        LET f == I.heap[Top(I).a]
            I1 == NewEnv(At(I, 1), f.closure)
            environment == Len(I1.envs)
            I2 == DefineParams(I1, environment, f.declaration.params, Top(I).vals, 1)
            this == get_at(I, f.closure, 0, "this").val
            returned == I.exc.sig = "ReturnException"
            value == IF returned THEN I.exc.val ELSE IF f.is_initializer THEN this ELSE Nil
            J == IF f.is_initializer
                 THEN Observe(I, "initializer", IF value = this THEN 1 ELSE 0,
                              IF returned THEN 1 ELSE 0, this)
                 ELSE I
        IN  IF Top(I).pc = 0
            THEN Push(I2, [Frame("execute_block", Block(f.declaration.body))
                           EXCEPT !.b = environment])
            ELSE Returns([J EXCEPT !.exc = NoExc], value)

\* LoxClass.call on the class object a with the arguments vals
LoxClass_call ==
    /\ Running("LoxClass_call")
    /\ interp' = LET I == interp IN
        LET klass == Top(I).a
            I1 == Alloc(I, LoxInstance(klass))
            instance == Len(I1.heap)
            initializer == find_method(I1, klass, "init")
            I2 == bind(I1, initializer, Ref("inst", instance))
        IN  IF Top(I).pc = 0
            THEN IF initializer = 0 THEN Returns(I1, Ref("inst", instance))
                 ELSE call([At(I2, 1) EXCEPT !.stack[Len(I.stack)].b = instance],
                           Ref("fn", Len(I2.heap)), Top(I).vals)
            ELSE Returns(I, Ref("inst", Top(I).b))

(***************************************************************************)
(* Statements (Interpreter.visit_*_stmt).                                  *)
(***************************************************************************)
\* _execute_block without the finally clause: the environment is restored
\* only when the statements run to their end
execute_block_no_finally ==
    /\ Running("execute_block")
    /\ interp' = LET I == interp IN
        LET frame == Top(I)
            previous == frame.a
            finally == IF I.exc.sig = "" THEN [I EXCEPT !.environment = previous] ELSE I
        IN  IF frame.pc = 0
            THEN [At(I, 1) EXCEPT !.stack[Len(I.stack)].a = I.environment,
                                  !.environment = frame.b]
            ELSE IF I.exc.sig = "" /\ frame.pc <= Len(frame.node.statements)
            THEN execute(At(I, frame.pc + 1), frame.node.statements[frame.pc])
            ELSE Pop(Observe(finally, "block_exit", previous, finally.environment,
                             Str(I.exc.sig)))

\* Interpreter._execute_block(node.statements, b): a is previous, pc the next
\* statement; the finally clause runs on every way out
execute_block ==
    /\ Running("execute_block")
    /\ interp' = LET I == interp IN
        LET frame == Top(I)
            previous == frame.a
            finally == [I EXCEPT !.environment = previous]
        IN  IF frame.pc = 0
            THEN [At(I, 1) EXCEPT !.stack[Len(I.stack)].a = I.environment,
                                  !.environment = frame.b]
            ELSE IF I.exc.sig = "" /\ frame.pc <= Len(frame.node.statements)
            THEN execute(At(I, frame.pc + 1), frame.node.statements[frame.pc])
            ELSE Pop(Observe(finally, "block_exit", previous, finally.environment,
                             Str(I.exc.sig)))

\* Interpreter._apply_trait(node.traits): m is methods, pc the trait in hand
apply_trait ==
    /\ Running("apply_trait")
    /\ interp' = LET I == interp IN
        LET frame == Top(I)
            traits == frame.node.traits
            trait_obj == I.ret
            merged == MergeTrait(frame.m, I.heap[trait_obj.n].methods)
        IN  IF frame.pc = 0
            THEN IF traits = <<>> THEN [Pop(I) EXCEPT !.retm = NoMethods]
                 ELSE evaluate(At(I, 1), traits[1])
            ELSE IF trait_obj.t # "trait" THEN Throws(I, "RuntimeError", Nil, "is not a trait.")
            ELSE IF ~merged.ok
                 THEN Throws(I, "RuntimeError", Nil, "Duplicate method found in traits.")
            ELSE IF frame.pc < Len(traits)
                 THEN evaluate([At(I, frame.pc + 1) EXCEPT !.stack[Len(I.stack)].m = merged.methods],
                               traits[frame.pc + 1])
            ELSE [Pop(I) EXCEPT !.retm = merged.methods]

visit_expression_stmt ==
    /\ Running("Expression")
    /\ interp' = LET I == interp IN
        IF Top(I).pc = 0 THEN evaluate(At(I, 1), Top(I).node.expression)
        ELSE Returns(I, Nil)

visit_print_stmt ==
    /\ Running("Print")
    /\ interp' = LET I == interp IN
        LET s == stringify(I, I.ret)
        IN  IF Top(I).pc = 0 THEN evaluate(At(I, 1), Top(I).node.expression)
            ELSE IF ~s.ok /\ s.sig = "LoxRuntimeError"
                 THEN Complete(LoxRuntimeError(I,
                          "Error: Variable access before initialization or assignment"))
            ELSE IF ~s.ok THEN Throws(I, s.sig, Nil, "maximum recursion depth exceeded")
            ELSE Returns([I EXCEPT !.out = Append(@, s.s)], Nil)

visit_var_stmt ==
    /\ Running("Var")
    /\ interp' = LET I == interp IN
        LET stmt == Top(I).node
        IN  IF Top(I).pc = 0
            THEN IF stmt.initializer.k = "None"
                 THEN Returns(define(I, I.environment, stmt.name, Nil), Nil)
                 ELSE evaluate(At(I, 1), stmt.initializer)
            ELSE Returns(define(I, I.environment, stmt.name, I.ret), Nil)

visit_block_stmt ==
    /\ Running("Block")
    /\ interp' = LET I == interp IN
        LET I1 == NewEnv(At(I, 1), I.environment)
        IN  IF Top(I).pc = 0
            THEN Push(I1, [Frame("execute_block", Top(I).node) EXCEPT !.b = Len(I1.envs)])
            ELSE Returns(I, Nil)

visit_if_stmt ==
    /\ Running("If")
    /\ interp' = LET I == interp IN
        LET stmt == Top(I).node
            t == Truthy(I, I.ret)
        IN  CASE Top(I).pc = 0 -> evaluate(At(I, 1), stmt.condition)
              [] Top(I).pc = 1 ->
                    IF t.b THEN execute(At(t.I, 2), stmt.then_branch)
                    ELSE IF stmt.else_branch.k # "None" THEN execute(At(t.I, 2), stmt.else_branch)
                    ELSE Returns(t.I, Nil)
              [] Top(I).pc = 2 -> Returns(I, Nil)

\* visit_while_stmt without the except clause: the BreakException of the body
\* leaves the loop as an exception
visit_while_stmt_no_except ==
    /\ Running("While")
    /\ interp' = LET I == interp IN
        LET stmt == Top(I).node
            t == Truthy(I, I.ret)
        IN  CASE Top(I).pc = 0 -> evaluate(At(I, 1), stmt.condition)
              [] Top(I).pc = 1 ->
                    IF t.b THEN execute(At(t.I, 2), stmt.body) ELSE Returns(t.I, Nil)
              [] Top(I).pc = 2 ->
                    IF I.exc.sig = "BreakException" THEN Pop(I)
                    ELSE evaluate(At(I, 1), stmt.condition)

\* pc = 1: the condition is evaluated; pc = 2: the body runs inside the try
visit_while_stmt ==
    /\ Running("While")
    /\ interp' = LET I == interp IN
        LET stmt == Top(I).node
            t == Truthy(I, I.ret)
        IN  CASE Top(I).pc = 0 -> evaluate(At(I, 1), stmt.condition)
              [] Top(I).pc = 1 ->
                    IF t.b THEN execute(At(t.I, 2), stmt.body) ELSE Returns(t.I, Nil)
              [] Top(I).pc = 2 ->
                    IF I.exc.sig = "BreakException"
                    THEN Returns([Observe(I, "break_caught", stmt.id, I.break_id,
                                          Bool(I.break_frame > CallDepth(I)))
                                  EXCEPT !.exc = NoExc], Nil)
                    ELSE evaluate(At(I, 1), stmt.condition)

visit_break_stmt ==
    /\ Running("Break")
    /\ interp' = LET I == interp IN
        Throws([I EXCEPT !.break_frame = CallDepth(I), !.break_id = Top(I).node.id],
               "BreakException", Nil, "")

visit_function_stmt ==
    /\ Running("Function")
    /\ interp' = LET I == interp IN
        LET stmt == Top(I).node
            I1 == Alloc(I, LoxFunction(stmt, I.environment, FALSE))
        IN  Returns(define(I1, I1.environment, stmt.name, Ref("fn", Len(I1.heap))), Nil)

visit_return_stmt ==
    /\ Running("Return")
    /\ interp' = LET I == interp IN
        LET stmt == Top(I).node
        IN  IF Top(I).pc = 0
            THEN IF stmt.value.k = "None" THEN Throws(I, "ReturnException", Nil, "")
                 ELSE evaluate(At(I, 1), stmt.value)
            ELSE Throws(I, "ReturnException", I.ret, "")

\* visit_class_stmt from the check of the superclass to the call of
\* _apply_trait; the frame keeps superclass in a and metaclass in b
ClassHead(I, stmt, superclass_obj) ==
    LET hasSuper == stmt.superclass.k # "None"
        superclass == IF hasSuper THEN superclass_obj.n ELSE 0
        I1 == define(I, I.environment, stmt.name, Nil)
        I2 == IF hasSuper
              THEN LET E == NewEnv(I1, I1.environment)
                   IN  define([E EXCEPT !.environment = Len(E.envs)],
                              Len(E.envs), "super", superclass_obj)
              ELSE I1
        cm == MakeMethods(I2, stmt.class_methods, 1, NoMethods, "")
        I3 == Alloc(cm.I, LoxClass(0, stmt.name \o " metaclass", superclass, cm.methods))
        metaclass == Len(I3.heap)
    IN  IF hasSuper /\ superclass_obj.t # "class"
        THEN Throws(I, "RuntimeError", Nil, "Superclass must be a class.")
        ELSE Push([At(I3, 2) EXCEPT !.stack[Len(I.stack)].a = superclass,
                                    !.stack[Len(I.stack)].b = metaclass],
                  Frame("apply_trait", stmt))

visit_class_stmt ==
    /\ Running("Class")
    /\ interp' = LET I == interp IN
        LET stmt == Top(I).node
            superclass == Top(I).a
            metaclass == Top(I).b
            m == MakeMethods(I, stmt.methods, 1, I.retm, "init")
            I4 == Alloc(m.I, LoxClass(metaclass, stmt.name, superclass, m.methods))
            klass == Ref("class", Len(I4.heap))
            I5 == IF superclass # 0
                  THEN [I4 EXCEPT !.environment = I4.envs[I4.environment].enclosing]
                  ELSE I4
            assigned == Environment_assign(I5, I5.environment, stmt.name, klass)
        IN  CASE Top(I).pc = 0 ->
                    IF stmt.superclass.k # "None" THEN evaluate(At(I, 1), stmt.superclass)
                    ELSE ClassHead(I, stmt, Nil)
              [] Top(I).pc = 1 -> ClassHead(I, stmt, I.ret)
              [] Top(I).pc = 2 ->
                    IF assigned.sig = "ok" THEN Returns(assigned.I, Nil) ELSE Complete(assigned)

visit_trait_stmt ==
    /\ Running("Trait")
    /\ interp' = LET I == interp IN
        LET stmt == Top(I).node
            m == TraitMethods(I, stmt.methods, 1, I.retm)
            I2 == Alloc(m.I, LoxTrait(stmt.name, m.methods))
            assigned == Environment_assign(I2, I2.environment, stmt.name,
                                           Ref("trait", Len(I2.heap)))
        IN  IF Top(I).pc = 0
            THEN Push(At(define(I, I.environment, stmt.name, Nil), 1), Frame("apply_trait", stmt))
            ELSE IF ~m.ok
                 THEN Throws(m.I, "RuntimeError", Nil,
                             "A previous trait declares a method with this name.")
            ELSE IF assigned.sig = "ok" THEN Returns(assigned.I, Nil) ELSE Complete(assigned)

(***************************************************************************)
(* The REPL loop and Interpreter.interpret.                                *)
(***************************************************************************)
\* main: the error handler and the interpreter; no run yet
Boot(at, S, P, how) ==
    /\ interp = Interpreter
    /\ resolver = Resolver(Interpreter.locals)
    /\ session = <<>>
    /\ phase = at
    /\ pc = 0
    /\ errors = <<>>
    /\ caught = ""
    /\ escaped = ""
    /\ scanner = S
    /\ parser = P
    /\ mode = how
    /\ exit_code = -1

\* main: run_prompt without a script argument, run_file with one
Init ==
    \E how \in {"prompt", "file"} :
        Boot("prompt", Scanner(<<>>, <<>>), Parser(<<>>, <<>>, 0), how)

\* run(source): scanner = Scanner(source, error_handler); for a program of
\* Programs up to resolver = Resolver(interpreter, error_handler) and the call
\* of resolver.resolve(statements)
Run(p) ==
    /\ phase = "prompt"
    /\ Len(session) < MaxRuns
    /\ mode = "file" => session = <<>>
    /\ IF p <= Len(Programs)
       THEN /\ phase' = "resolve"
            /\ parser' = [Parser(<<>>, errors, 0) EXCEPT !.statements = Programs[p]]
            /\ resolver' = [Resolver(interp.locals) EXCEPT
                               !.todo = ResolveAll("stmt", Programs[p], "")]
            /\ UNCHANGED scanner
       ELSE /\ phase' = "scan"
            /\ scanner' = Scanner(Sources[p - Len(Programs)], errors)
            /\ UNCHANGED <<parser, resolver>>
    /\ interp' = [interp EXCEPT !.out = <<>>, !.obs = {}]
    /\ session' = Append(session, p)
    /\ pc' = 1
    /\ caught' = ""
    /\ escaped' = ""
    /\ UNCHANGED <<errors, mode, exit_code>>

\* run(source): tokens = scanner.scan_tokens(); parser = Parser(tokens,
\* error_handler); an exception of the scanner leaves run
ScanTokens ==
    /\ phase = "scan"
    /\ scanner' = scan_tokens(scanner)
    /\ errors' = scanner'.errors
    /\ IF scanner'.exc # ""
       THEN phase' = "done" /\ escaped' = scanner'.exc /\ UNCHANGED parser
       ELSE /\ phase' = "parse"
            /\ parser' = Parser(scanner'.tokens, scanner'.errors, 100000 * Len(session))
            /\ UNCHANGED escaped
    /\ UNCHANGED <<interp, resolver, session, pc, caught, mode, exit_code>>

\* run(source): statements = parser.parse(); if error_handler.had_error it
\* prints the errors and returns, else resolver = Resolver(...) and the call of
\* resolver.resolve(statements)
Parse ==
    /\ phase = "parse"
    /\ parser' = parse(parser)
    /\ errors' = parser'.errors
    /\ IF parser'.exc # ""
       THEN phase' = "done" /\ escaped' = parser'.exc /\ UNCHANGED resolver
       ELSE IF parser'.errors # <<>>
            THEN phase' = "failed" /\ UNCHANGED <<resolver, escaped>>
       ELSE /\ phase' = "resolve"
            /\ resolver' = [Resolver(interp.locals) EXCEPT
                               !.todo = ResolveAll("stmt", parser'.statements, "")]
            /\ UNCHANGED escaped
    /\ UNCHANGED <<interp, scanner, session, pc, caught, mode, exit_code>>

\* one step of the resolver; Interpreter.resolve writes into _locals and the
\* error handler collects the errors
Resolve ==
    /\ phase = "resolve"
    /\ resolver.todo # <<>>
    /\ resolver' = resolve(resolver)
    /\ interp' = [interp EXCEPT !.locals = resolver'.locals]
    /\ errors' = resolver'.errors
    /\ UNCHANGED <<session, phase, pc, caught, escaped,
                   scanner, parser, mode, exit_code>>

\* run(source) without the second test of error_handler.had_error
Resolved_interprets ==
    /\ phase = "resolve"
    /\ resolver.todo = <<>>
    /\ phase' = "interpret"
    /\ UNCHANGED <<interp, resolver, session, pc, errors, caught, escaped,
                   scanner, parser, mode, exit_code>>

\* run(source) after resolver.resolve(statements): if error_handler.had_error
\* it prints the errors and returns, else it calls interpreter.interpret
Resolved ==
    /\ phase = "resolve"
    /\ resolver.todo = <<>>
    /\ phase' = IF errors # <<>> THEN "failed" ELSE "interpret"
    /\ UNCHANGED <<interp, resolver, session, pc, errors, caught, escaped,
                   scanner, parser, mode, exit_code>>

\* Interpreter.interpret: for statement in statements: self._execute(statement)
Interpret ==
    /\ phase = "interpret"
    /\ interp.stack = <<>>
    /\ interp.exc.sig = ""
    /\ pc <= Len(Statements)
    /\ interp' = execute(interp, Statements[pc])
    /\ pc' = pc + 1
    /\ UNCHANGED <<resolver, session, phase, errors, caught, escaped,
                   scanner, parser, mode, exit_code>>

\* Interpreter.interpret returns after the last statement
InterpretReturn ==
    /\ phase = "interpret"
    /\ interp.stack = <<>>
    /\ interp.exc.sig = ""
    /\ pc > Len(Statements)
    /\ phase' = "done"
    /\ UNCHANGED <<interp, resolver, session, pc, errors, caught, escaped,
                   scanner, parser, mode, exit_code>>

\* Interpreter.interpret: except LoxRuntimeError as e: print(e)
InterpretExcept ==
    /\ phase = "interpret"
    /\ interp.stack = <<>>
    /\ interp.exc.sig = "LoxRuntimeError"
    /\ interp' = [interp EXCEPT !.out = Append(@, interp.exc.msg), !.exc = NoExc]
    /\ caught' = interp.exc.msg
    /\ phase' = "done"
    /\ UNCHANGED <<resolver, session, pc, errors, escaped,
                   scanner, parser, mode, exit_code>>

\* any other exception leaves interpret and run; run_prompt: except Exception
\* as e: error_handler.print_exception(e)
RunPromptExcept ==
    /\ phase = "interpret"
    /\ interp.stack = <<>>
    /\ interp.exc.sig \notin {"", "LoxRuntimeError"}
    /\ interp' = [interp EXCEPT !.exc = NoExc]
    /\ escaped' = interp.exc.sig
    /\ phase' = "done"
    /\ UNCHANGED <<resolver, session, pc, errors, caught,
                   scanner, parser, mode, exit_code>>

\* an exception passes a frame that has no except or finally clause for it
Propagate ==
    /\ phase = "interpret"
    /\ interp.stack # <<>>
    /\ interp.exc.sig # ""
    /\ ~Handles(Top(interp), interp.exc)
    /\ interp' = Pop(interp)
    /\ UNCHANGED <<resolver, session, phase, pc, errors, caught, escaped,
                   scanner, parser, mode, exit_code>>

\* run_prompt: finally: error_handler.reset(), and back to input(prompt)
Reset ==
    /\ mode = "prompt"
    /\ phase \in {"done", "failed"}
    /\ errors' = <<>>
    /\ phase' = "prompt"
    /\ UNCHANGED <<interp, resolver, session, pc, caught, escaped,
                   scanner, parser, mode, exit_code>>

\* run_file after run(source): sys.exit(65) if error_handler.had_error, and
\* except Exception: sys.exit(70); else the process ends with 0
Exit ==
    /\ mode = "file"
    /\ phase \in {"done", "failed"}
    /\ exit_code' = IF escaped # "" THEN 70 ELSE IF errors # <<>> THEN 65 ELSE 0
    /\ phase' = "exit"
    /\ UNCHANGED <<interp, resolver, session, pc, errors, caught, escaped,
                   scanner, parser, mode>>

Next ==
    \/ \E p \in 1..Len(Programs) + Len(Sources) : Run(p)
    \/ ScanTokens
    \/ Parse
    \/ Resolve
    \/ Resolved
    \/ Interpret
    \/ InterpretReturn
    \/ InterpretExcept
    \/ RunPromptExcept
    \/ Propagate
    \/ visit_literal_expr \/ visit_grouping_expr \/ visit_unary_expr
    \/ visit_binary_expr \/ visit_variable_expr \/ visit_this_expr
    \/ visit_assign_expr \/ visit_conditional_expr \/ visit_logical_expr
    \/ visit_set_expr \/ visit_super_expr \/ visit_call_expr \/ visit_get_expr
    \/ LoxFunction_call \/ LoxClass_call \/ execute_block \/ apply_trait
    \/ visit_expression_stmt \/ visit_print_stmt \/ visit_var_stmt
    \/ visit_block_stmt \/ visit_if_stmt \/ visit_while_stmt
    \/ visit_break_stmt \/ visit_function_stmt \/ visit_return_stmt
    \/ visit_class_stmt \/ visit_trait_stmt
    \/ Reset
    \/ Exit

Spec == Init /\ [][Next]_vars

(***************************************************************************)
(* The scanner and the parser on their own: ScanSpec is scan_tokens on     *)
(* every text of at most MaxSourceLen characters of Alphabet, ParseSpec is *)
(* Parser.parse on every sequence of at most MaxTokens tokens of           *)
(* TokenTypes followed by EOF, and on the sequences of Recoveries: two     *)
(* NUMBER tokens, which is a syntax error at the second, and then a        *)
(* declaration or statement that begins with a keyword.                    *)
(***************************************************************************)
MaxSourceLen == 4

MaxTokens == 3

Alphabet == {"/", "*", "a", "\n", "\"", "@", " ", "1", "."}

TokenTypes ==
    {"NUMBER", "IDENTIFIER", "SEMICOLON", "LEFT_PAREN", "RIGHT_PAREN",
     "LEFT_BRACE", "RIGHT_BRACE", "EQUAL", "PLUS", "PRINT", "VAR", "FUN"}

\* the sequences of at most n elements of a set
Texts(chars, n) == UNION {[1..k -> chars] : k \in 0..n}

\* the tokens scan_tokens makes of a text with these token types
Tokens(types) ==
    [i \in 1..Len(types) + 1 |->
        IF i > Len(types) THEN Token("EOF", "", Nil, 1)
        ELSE IF types[i] = "NUMBER" THEN Token("NUMBER", "1", Num(1), 1)
        ELSE IF types[i] = "IDENTIFIER" THEN Token("IDENTIFIER", "a", Nil, 1)
        ELSE Token(types[i], "", Nil, 1)]

\* statements with a parse error: 1 1 (the error is reported at the second
\* number) and var a (reported at the token that follows)
Erroneous == {<<"NUMBER", "NUMBER">>, <<"VAR", "IDENTIFIER">>}

\* one well-formed statement for each keyword of Parser._synchronize
Recoveries ==
    {<<"CLASS", "IDENTIFIER", "LEFT_BRACE", "RIGHT_BRACE">>,
     <<"FUN", "IDENTIFIER", "LEFT_PAREN", "RIGHT_PAREN", "LEFT_BRACE", "RIGHT_BRACE">>,
     <<"VAR", "IDENTIFIER", "SEMICOLON">>,
     <<"FOR", "LEFT_PAREN", "SEMICOLON", "SEMICOLON", "RIGHT_PAREN", "NUMBER", "SEMICOLON">>,
     <<"IF", "LEFT_PAREN", "NUMBER", "RIGHT_PAREN", "NUMBER", "SEMICOLON">>,
     <<"WHILE", "LEFT_PAREN", "NUMBER", "RIGHT_PAREN", "NUMBER", "SEMICOLON">>,
     <<"PRINT", "NUMBER", "SEMICOLON">>,
     <<"RETURN", "SEMICOLON">>}

\* block comments with a nested comment that is empty or next to another
\* delimiter:  /*/**/*/   /*/*a*/*/a   /*/*a*/a*/a   /*a/**/a*/a
Comments ==
    {<<"/", "*", "/", "*", "*", "/", "*", "/">>,
     <<"/", "*", "/", "*", "a", "*", "/", "*", "/", "a">>,
     <<"/", "*", "/", "*", "a", "*", "/", "a", "*", "/", "a">>,
     <<"/", "*", "a", "/", "*", "*", "/", "a", "*", "/", "a">>}

InitScan ==
    \E source \in Texts(Alphabet, MaxSourceLen) \cup Comments :
        Boot("scan", Scanner(source, <<>>), Parser(<<>>, <<>>, 0), "prompt")

ScanSpec == InitScan /\ [][ScanTokens]_vars

InitParse ==
    \E types \in Texts(TokenTypes, MaxTokens)
                   \cup {first \o rest : first \in Erroneous, rest \in Recoveries} :
        Boot("parse", Scanner(<<>>, <<>>), Parser(Tokens(types), <<>>, 0), "prompt")

ParseSpec == InitParse /\ [][Parse]_vars

(***************************************************************************)
(* Environment.assign on its own: a call environment.assign(name, value)   *)
(* on an environment of a tree of at most MaxEnvs environments, each of    *)
(* which encloses none (0) or an earlier one and binds some of Names to 0. *)
(* The call is the frame of the stack: a is the environment, vals the name *)
(* and the value, pc = 1 when it has returned or raised.                   *)
(***************************************************************************)
MaxEnvs == 3

Names == {"a", "b"}

Scopes ==
    UNION {{envs \in [1..n -> [enclosing : 0..n - 1,
                               values : UNION {[names -> {Num(0)}] : names \in SUBSET Names}]] :
               \A i \in 1..n : envs[i].enclosing < i} : n \in 1..MaxEnvs}

InitAssign ==
    \E envs \in Scopes : \E env \in DOMAIN envs : \E name \in Names :
        /\ interp = [Interpreter EXCEPT
                        !.envs = envs,
                        !.stack = <<[Frame("Environment_assign", NoExpr) EXCEPT
                                        !.a = env, !.vals = <<Str(name), Num(1)>>]>>]
        /\ resolver = Resolver(Interpreter.locals)
        /\ session = <<>>
        /\ phase = "assign"
        /\ pc = 0
        /\ errors = <<>>
        /\ caught = ""
        /\ escaped = ""
        /\ scanner = Scanner(<<>>, <<>>)
        /\ parser = Parser(<<>>, <<>>, 0)
        /\ mode = "prompt"
        /\ exit_code = -1

\* environment.assign(name, value) runs
Assigns ==
    /\ phase = "assign"
    /\ Top(interp).pc = 0
    /\ interp' = LET r == Environment_assign(interp, Top(interp).a,
                                            Top(interp).vals[1].s, Top(interp).vals[2])
                 IN  [At(r.I, 1) EXCEPT
                        !.exc = IF r.sig = "ok" THEN NoExc
                                ELSE [sig |-> r.sig, val |-> r.val, msg |-> r.msg]]
    /\ UNCHANGED <<resolver, session, phase, pc, errors, caught, escaped,
                   scanner, parser, mode, exit_code>>

AssignSpec == InitAssign /\ [][Assigns]_vars

(***************************************************************************)
(* Lexical structure of a program, read off its statements: the variable   *)
(* references with the names declared so far in the enclosing block,       *)
(* function, class and trait scopes, and the break statements with the     *)
(* while statement that encloses them in the same function body.           *)
(***************************************************************************)
RECURSIVE ReferencesIn(_, _)
RECURSIVE ReferencesOf(_, _)
RECURSIVE ReferencesOfBlock(_, _, _)

\* the references of an expression: id, and local when names has the name
ReferencesIn(expr, names) ==
    CASE expr.k = "Variable" -> {[id |-> expr.id, local |-> expr.name \in names]}
      [] expr.k = "Assign" ->
            {[id |-> expr.id, local |-> expr.name \in names]}
            \cup ReferencesIn(expr.value, names)
      [] expr.k \in {"Binary", "Logical"} ->
            ReferencesIn(expr.left, names) \cup ReferencesIn(expr.right, names)
      [] expr.k = "Call" ->
            ReferencesIn(expr.callee, names)
            \cup UNION {ReferencesIn(expr.arguments[i], names) : i \in DOMAIN expr.arguments}
      [] expr.k = "Get" -> ReferencesIn(expr.object, names)
      [] expr.k = "Grouping" -> ReferencesIn(expr.expression, names)
      [] expr.k = "Conditional" ->
            ReferencesIn(expr.condition, names) \cup ReferencesIn(expr.then_branch, names)
            \cup ReferencesIn(expr.else_branch, names)
      [] expr.k = "Set" -> ReferencesIn(expr.object, names) \cup ReferencesIn(expr.value, names)
      [] expr.k = "Unary" -> ReferencesIn(expr.right, names)
      [] OTHER -> {}

\* the references of the statements of a block or body from the i-th on
ReferencesOfBlock(statements, i, names) ==
    IF i > Len(statements) THEN {}
    ELSE LET stmt == statements[i]
             declared ==
                 IF stmt.k \in {"Var", "Function", "Class", "Trait"}
                 THEN names \cup {stmt.name} ELSE names
         IN  ReferencesOf(stmt, IF stmt.k = "Var" THEN names ELSE declared)
             \cup ReferencesOfBlock(statements, i + 1, declared)

ReferencesOf(stmt, names) ==
    CASE stmt.k = "Block" -> ReferencesOfBlock(stmt.statements, 1, names)
      [] stmt.k = "Var" -> ReferencesIn(stmt.initializer, names)
      [] stmt.k = "Function" ->
            ReferencesOfBlock(stmt.body, 1, names \cup {stmt.params[i] : i \in DOMAIN stmt.params})
      [] stmt.k = "Class" ->
            ReferencesIn(stmt.superclass, names)
            \cup UNION {ReferencesIn(stmt.traits[i], names) : i \in DOMAIN stmt.traits}
            \cup UNION {ReferencesOf(stmt.methods[i], names) : i \in DOMAIN stmt.methods}
            \cup UNION {ReferencesOf(stmt.class_methods[i], names) :
                        i \in DOMAIN stmt.class_methods}
      [] stmt.k = "Trait" ->
            UNION {ReferencesIn(stmt.traits[i], names) : i \in DOMAIN stmt.traits}
            \cup UNION {ReferencesOf(stmt.methods[i], names) : i \in DOMAIN stmt.methods}
      [] stmt.k \in {"Expression", "Print"} -> ReferencesIn(stmt.expression, names)
      [] stmt.k = "If" ->
            ReferencesIn(stmt.condition, names) \cup ReferencesOf(stmt.then_branch, names)
            \cup ReferencesOf(stmt.else_branch, names)
      [] stmt.k = "While" ->
            ReferencesIn(stmt.condition, names) \cup ReferencesOf(stmt.body, names)
      [] stmt.k = "Return" -> ReferencesIn(stmt.value, names)
      [] OTHER -> {}

\* the references of a program: what is declared at top level is global
References(statements) ==
    UNION {ReferencesOf(statements[i], {}) : i \in DOMAIN statements}

\* the break statements of a statement inside the while statement loop (0:
\* none): the innermost while statement around each in its function body
RECURSIVE BreaksOf(_, _)
BreaksOf(stmt, loop) ==
    CASE stmt.k = "Break" -> {[break |-> stmt.id, loop |-> loop]}
      [] stmt.k = "While" -> BreaksOf(stmt.body, stmt.id)
      [] stmt.k = "Block" ->
            UNION {BreaksOf(stmt.statements[i], loop) : i \in DOMAIN stmt.statements}
      [] stmt.k = "If" -> BreaksOf(stmt.then_branch, loop) \cup BreaksOf(stmt.else_branch, loop)
      [] stmt.k = "Function" -> UNION {BreaksOf(stmt.body[i], 0) : i \in DOMAIN stmt.body}
      [] stmt.k = "Class" ->
            UNION {BreaksOf(stmt.methods[i], 0) : i \in DOMAIN stmt.methods}
            \cup UNION {BreaksOf(stmt.class_methods[i], 0) : i \in DOMAIN stmt.class_methods}
      [] stmt.k = "Trait" -> UNION {BreaksOf(stmt.methods[i], 0) : i \in DOMAIN stmt.methods}
      [] OTHER -> {}

\* interpret has returned or raised on the p-th source of Programs
Finished(p) == phase = "done" /\ session # <<>> /\ session[Len(session)] = p

\* what happened during the run
Observed(ev) == {o \in interp.obs : o.ev = ev}

(***************************************************************************)
(* Properties.                                                             *)
(***************************************************************************)

\* C1: whenever the interpreter evaluates a Variable, Assign, This or Super
\* expression that has a depth d in the side-table, the environment d
\* enclosing links from the current environment contains the name (for Super,
\* the one at d - 1 contains this as well); in blocks, functions, methods,
\* getters, class-level methods, trait methods and methods of subclasses.
ScopeCorrectness == \A o \in Observed("lookup") : o.b = 1

\* C2: in a program without static errors a break executed in a function body
\* never ends a while loop of the code that called the function, and neither
\* a break signal nor a return signal leaves Interpreter.interpret.
ControlUnwinding ==
    /\ \A o \in Observed("break_caught") : o.v = Bool(FALSE)
    /\ escaped \notin {"BreakException", "ReturnException"}

\* C3: after any call of Interpreter.interpret, finished or aborted by a
\* runtime error, the interpreter's current environment is the global one, so
\* that the next interpret call starts in globals.
EnvironmentReleased ==
    phase \in {"done", "failed", "prompt"} => interp.environment = Globals

\* C4: the truthiness test of if, while, !, and/or and ?: takes exactly nil
\* and false for false; every other value, 0 and "" included, is truthy.
OnlyNilAndFalseAreFalse ==
    \A o \in Observed("truthy") : (o.a = 0) <=> (o.v \in {Nil, Bool(FALSE)})

\* C5: a called function works on the environment it was defined in: the
\* environment of every running call is a fresh one enclosed by the function's
\* closure; a later declaration of the same name in the defining block does
\* not change the binding the function uses (ClosureShadow prints g), an
\* assignment through one closure is seen by the others sharing the
\* environment (ClosureShared prints 2) and not by the closures of another
\* invocation (ClosureCounter prints 2 and 1), and a recursive call leaves
\* the caller's parameters alone (ClosureRecursion prints 0, 1, 2).
ClosureCapture ==
    /\ \A i \in DOMAIN interp.stack :
          interp.stack[i].f = "LoxFunction_call" /\ i < Len(interp.stack)
          => /\ interp.stack[i + 1].f = "execute_block"
             /\ interp.envs[interp.stack[i + 1].b].enclosing
                   = interp.heap[interp.stack[i].a].closure
             /\ \A j \in DOMAIN interp.stack :
                   interp.stack[j].f = "execute_block" /\ j # i + 1
                   => interp.stack[j].b # interp.stack[i + 1].b
    /\ Finished(1) => interp.out = <<"g">>
    /\ Finished(2) => interp.out = <<"2">>
    /\ Finished(30) => interp.out = <<"2", "1">>
    /\ Finished(3) => interp.out = <<"0", "1", "2">>

\* two closures of one invocation have run and the shared variable was read
ClosureCaptureWitness ==
    /\ Finished(2)
    /\ interp.out = <<"2">>
    /\ \E o \in Observed("lookup") : o.a = 203 /\ o.b = 1

\* C6: a break ends exactly the innermost while loop that lexically encloses
\* it (a for loop being its while): the loop that catches such a break is
\* that one; the loop neither iterates nor tests its condition again, the
\* loops around it go on and execution resumes after the loop (NestedBreak
\* prints in, out twice and then end; ForBreak prints 0, 1, done;
\* BreakInCalledLoop prints f twice and then 2).
BreakInnermostLoop ==
    /\ \A o \in Observed("break_caught") :
          \A i \in DOMAIN Statements : \A b \in BreaksOf(Statements[i], 0) :
             b.break = o.b /\ b.loop # 0 => o.a = b.loop
    /\ Finished(15) => interp.out = <<"in", "out", "in", "out", "end">>
    /\ Finished(16) => interp.out = <<"0", "1", "done">>
    /\ Finished(31) => interp.out = <<"f", "f", "2">>

\* the inner loop of NestedBreak has caught its break and the outer went on
BreakInnermostLoopWitness ==
    /\ Finished(15)
    /\ [ev |-> "break_caught", a |-> 1505, b |-> 1509, v |-> Bool(FALSE)] \in interp.obs
    /\ interp.out = <<"in", "out", "in", "out", "end">>

\* C7: when _execute_block is left, by the end of the statements, a return
\* signal, a break signal or a runtime error, the current environment is the
\* one of the moment the block or call was entered.
BlockRestoresEnvironment == \A o \in Observed("block_exit") : o.a = o.b

\* BlockExits has left blocks in the four ways
BlockRestoresEnvironmentWitness ==
    /\ Finished(17)
    /\ \A sig \in {"", "ReturnException", "BreakException", "LoxRuntimeError"} :
          \E o \in Observed("block_exit") : o.v = Str(sig)

\* C8: the call of an initializer returns the receiver bound as this in its
\* closure, at the end of the body and on a bare return alike.
InitializerReturnsThis == \A o \in Observed("initializer") : o.a = 1

\* C9: after resolution a variable reference has an entry in the side-table
\* exactly when it refers to a name declared in an enclosing block, function,
\* class or trait scope; superclass names and the trait names of with
\* clauses are references like any other.
SideTableComplete ==
    phase = "resolve" /\ resolver.todo = <<>> /\ errors = <<>>
    => \A r \in References(Statements) : r.local <=> r.id \in DOMAIN interp.locals

\* C10: a runtime error of any kind raised while a statement executes aborts
\* the interpret call: interpret prints it, executes no further statement and
\* returns; no exception reaches the caller of interpret.
RuntimeErrorAborts ==
    /\ escaped \notin {"RuntimeError", "LoxRuntimeError"}
    /\ phase = "done" /\ caught # ""
       => interp.stack = <<>> /\ interp.out[Len(interp.out)] = caught

\* C11: the resolver is at work only on a source for which the scanner and
\* the parser have recorded no error, and Interpreter.interpret only on one
\* for which the resolver has recorded none either; a run that has returned
\* after a static error has executed nothing.
StaticErrorSuppresses ==
    /\ phase = "resolve" => parser.errors = <<>>
    /\ phase = "interpret" => errors = <<>>
    /\ phase = "failed" => errors # <<>> /\ pc = 1 /\ interp.out = <<>> /\ interp.obs = {}

\* run has returned after an error of the scanner or the parser
StaticErrorSuppressesWitness ==
    /\ phase = "failed"
    /\ parser.errors # <<>>

\* C12: in file mode the process ends with 65 when the scanner, the parser or
\* the resolver has recorded an error, with 70 when a runtime error has
\* aborted the execution, and with 0 only when the program has run without
\* any error.
ExitCodes ==
    phase = "exit" =>
        /\ errors # <<>> /\ escaped = "" => exit_code = 65
        /\ errors = <<>> /\ (caught # "" \/ escaped # "") => exit_code = 70
        /\ exit_code = 0 => errors = <<>> /\ caught = "" /\ escaped = ""

\* C13: for every source scan_tokens returns, without an exception, a list of
\* tokens in which EOF occurs exactly once, as the last token.
ScannerTotal ==
    phase \in {"parse", "done"} =>
        /\ scanner.exc = ""
        /\ scanner.tokens # <<>>
        /\ \A i \in 1..Len(scanner.tokens) :
              scanner.tokens[i].type = "EOF" <=> i = Len(scanner.tokens)

\* the number of characters of source up to the end of the block comment
\* that is open at depth after the first i characters: each /* adds one to
\* the depth, each */ takes one off, and the comment ends with the */ that
\* brings the depth to zero; 0 when there is no such */
RECURSIVE CommentEnd(_, _, _)
CommentEnd(source, i, depth) ==
    IF i + 2 > Len(source) THEN 0
    ELSE IF source[i + 1] = "/" /\ source[i + 2] = "*"
         THEN CommentEnd(source, i + 2, depth + 1)
    ELSE IF source[i + 1] = "*" /\ source[i + 2] = "/"
         THEN IF depth = 1 THEN i + 2 ELSE CommentEnd(source, i + 2, depth - 1)
    ELSE CommentEnd(source, i + 1, depth)

\* the types and lexemes of the tokens of a scanner
Lexemes(S) == [i \in 1..Len(S.tokens) |-> <<S.tokens[i].type, S.tokens[i].lexeme>>]

\* C14: a source that begins with a block comment is scanned as the text
\* after the */ that brings the nesting depth back to zero, the comment
\* giving no token and no error; when no */ does, the scanner reports
\* "Unterminated block comment." and nothing else.  Stated of the scans
\* that return.
NestedBlockComments ==
    /\ phase = "parse"
    /\ Len(scanner.source) >= 2 /\ scanner.source[1] = "/" /\ scanner.source[2] = "*"
    => LET end == CommentEnd(scanner.source, 2, 1)
           rest == scan_tokens(Scanner(SubSeq(scanner.source, end + 1,
                                              Len(scanner.source)), <<>>))
       IN  IF end = 0
           THEN /\ scanner.exc = ""
                /\ scanner.errors = <<"Unterminated block comment.">>
                /\ Lexemes(scanner) = <<<<"EOF", "">>>>
           ELSE /\ scanner.exc = rest.exc
                /\ scanner.errors = rest.errors
                /\ Lexemes(scanner) = Lexemes(rest)

\* C15: on every token sequence that ends with EOF, Parser.parse returns:
\* no ParseError leaves it, it stops at the EOF token, and it either recorded
\* no error and its statements go on to the resolver, or recorded at least
\* one error.
ParserTotal ==
    phase # "parse" =>
        /\ parser.exc = "" /\ escaped = ""
        /\ Parser_peek(parser).type = "EOF"
        /\ \/ parser.errors = <<>> /\ phase = "resolve"
           \/ parser.errors # <<>> /\ phase = "failed"

\* parse went on after a parse error and returned a later statement
ParserTotalWitness ==
    /\ phase = "failed" /\ parser.exc = ""
    /\ Len(parser.errors) = 1 /\ Len(parser.statements) = 1
    /\ parser.tokens[1].type = "NUMBER" /\ parser.tokens[2].type = "NUMBER"

\* the token types of a parser's tokens from..to
Types(P, from, to) == [i \in 1..(to - from + 1) |-> P.tokens[from + i - 1].type]

\* C16: when the tokens are an erroneous statement followed by a well-formed
\* statement that starts with class, fun, var, for, if, while, print or
\* return, the parser records the one error, resumes at the keyword, and
\* returns exactly the statement that parsing the well-formed statement
\* alone returns.
PanicModeRecovery ==
    /\ phase # "parse"
    /\ Len(parser.tokens) > 3
    /\ Types(parser, 1, 2) \in Erroneous
    /\ Types(parser, 3, Len(parser.tokens) - 1) \in Recoveries
    => /\ Len(parser.errors) = 1
       /\ parser.statements =
              parse(Parser(SubSeq(parser.tokens, 3, Len(parser.tokens)), <<>>,
                           parser.base + 2)).statements
       /\ Len(parser.statements) = 1

\* _apply_trait has evaluated the next trait of the list
TraitInHand ==
    /\ phase = "interpret" /\ interp.stack # <<>> /\ interp.exc.sig = ""
    /\ Top(interp).f = "apply_trait" /\ Top(interp).pc >= 1
    /\ interp.ret.t = "trait"

\* visit_class_stmt has the methods _apply_trait returned
TraitsApplied ==
    /\ phase = "interpret" /\ interp.stack # <<>> /\ interp.exc.sig = ""
    /\ Top(interp).f = "Class" /\ Top(interp).pc = 2

\* the names of the methods declared in a body
Declared(declarations) == {declarations[i].name : i \in DOMAIN declarations}

\* C17: _apply_trait adds the methods of each trait of the list to the ones
\* of the traits before it, keeping all of them, when no name is offered
\* twice, and raises the duplicate method error at the first trait that
\* offers a name already there; the method map of the class is the one
\* _apply_trait returned with each method of the class body laid over it,
\* without an error (run in the global environment, where the trait names
\* are found, TraitUnion prints 1, 2, 3, TraitOverride prints 3, 2 and
\* ErrTraitConflict ends with the error before it prints).
TraitFlattening ==
    /\ [](interp.environment = Globals =>
             /\ Finished(32) => interp.out = <<"1", "2", "3">> /\ escaped = ""
             /\ Finished(33) => interp.out = <<"3", "2">> /\ escaped = ""
             /\ Finished(27) => interp.out = <<>> /\ escaped = "RuntimeError")
    /\ [][TraitInHand =>
            LET methods == Top(interp).m
                offered == interp.heap[interp.ret.n].methods
                depth == Len(interp.stack)
                after == IF Len(interp'.stack) >= depth THEN interp'.stack[depth].m
                         ELSE interp'.retm
            IN  IF DOMAIN methods \cap DOMAIN offered = {}
                THEN /\ interp'.exc.sig = ""
                     /\ DOMAIN after = DOMAIN methods \cup DOMAIN offered
                     /\ \A name \in DOMAIN methods : after[name] = methods[name]
                     /\ \A name \in DOMAIN offered : after[name] = offered[name]
                ELSE /\ interp'.exc.sig = "RuntimeError"
                     /\ interp'.exc.msg = "Duplicate method found in traits."
                     /\ Len(interp'.stack) < depth]_vars
    /\ [][TraitsApplied =>
            LET stmt == Top(interp).node
                klass == interp'.heap[Len(interp'.heap)]
            IN  /\ interp'.exc.sig = ""
                /\ klass.k = "class" /\ klass.name = stmt.name
                /\ DOMAIN klass.methods = DOMAIN interp.retm \cup Declared(stmt.methods)
                /\ \A name \in DOMAIN interp.retm \ Declared(stmt.methods) :
                      klass.methods[name] = interp.retm[name]
                /\ \A name \in Declared(stmt.methods) :
                      /\ klass.methods[name] > Len(interp.heap)
                      /\ interp'.heap[klass.methods[name]].declaration.name = name
                      /\ \E i \in DOMAIN stmt.methods :
                            interp'.heap[klass.methods[name]].declaration = stmt.methods[i]]_vars

\* the class of TraitOverride has its own a over the trait's, and the trait's b
TraitFlatteningWitness ==
    /\ Finished(33)
    /\ interp.out = <<"3", "2">>
    /\ \E k \in DOMAIN interp.heap :
          /\ interp.heap[k].k = "class" /\ interp.heap[k].name = "C"
          /\ DOMAIN interp.heap[k].methods = {"a", "b"}

\* visit_get_expr has evaluated the object, an instance or a class (an
\* array has a get of its own), and reads the property
PropertyRead ==
    /\ phase = "interpret" /\ interp.stack # <<>> /\ interp.exc.sig = ""
    /\ Top(interp).f = "Get" /\ Top(interp).pc = 1
    /\ interp.ret.t \in {"inst", "class"}

\* klass and the classes above it, nearest first
RECURSIVE Ancestry(_, _)
Ancestry(I, klass) ==
    IF klass = 0 THEN <<>> ELSE <<klass>> \o Ancestry(I, I.heap[klass].superclass)

\* what the read gave: the value returned, or the getter that is called
Got(before, after) ==
    IF Len(after.stack) > Len(before.stack) THEN Ref("fn", Top(after).a) ELSE after.ret

\* fn is the method bound to receiver: a new function of the method's
\* declaration in a new environment that holds this and encloses the
\* method's closure
Bound(before, after, fn, method, receiver) ==
    /\ fn.t = "fn" /\ fn.n > Len(before.heap) /\ fn.n <= Len(after.heap)
    /\ after.heap[fn.n].declaration = before.heap[method].declaration
    /\ after.heap[fn.n].is_initializer = before.heap[method].is_initializer
    /\ after.heap[fn.n].closure > Len(before.envs)
    /\ after.envs[after.heap[fn.n].closure].enclosing = before.heap[method].closure
    /\ DOMAIN after.envs[after.heap[fn.n].closure].values = {"this"}
    /\ after.envs[after.heap[fn.n].closure].values["this"] = receiver

\* C18: the read of property name of an instance gives the instance's own
\* field when it has one, also when a method has that name; otherwise the
\* method of that name of the nearest class from the instance's class up the
\* superclass chain, bound to the instance; otherwise it raises the
\* undefined property error (run in the global environment, where the class
\* names are found, PropertyLookup prints 9, B, 2 and ends with the error).
PropertyLookupOrder ==
    /\ [](Finished(34) /\ interp.environment = Globals
             => interp.out = <<"9", "B", "2", "Undefined property">>)
    /\ [][PropertyRead =>
            LET obj == interp.ret
                name == Top(interp).node.name
                fields == interp.heap[obj.n].fields
                chain == Ancestry(interp, interp.heap[obj.n].klass)
                owners == {i \in DOMAIN chain : name \in DOMAIN interp.heap[chain[i]].methods}
                nearest == chain[CHOOSE i \in owners : \A j \in owners : i <= j]
            IN  IF name \in DOMAIN fields
                THEN interp'.exc.sig = "" /\ Got(interp, interp') = fields[name]
                ELSE IF owners # {}
                THEN /\ interp'.exc.sig = ""
                     /\ Bound(interp, interp', Got(interp, interp'),
                              interp.heap[nearest].methods[name], obj)
                ELSE /\ interp'.exc.sig = "LoxRuntimeError"
                     /\ interp'.exc.msg = "Undefined property"
                     /\ Len(interp'.stack) < Len(interp.stack)]_vars

\* PropertyLookup has read an inherited method, an overridden one, a field
\* over a method and an undefined property
PropertyLookupOrderWitness ==
    /\ Finished(34)
    /\ interp.out = <<"9", "B", "2", "Undefined property">>
    /\ caught = "Undefined property"

\* visit_super_expr is about to run
SuperRead ==
    /\ phase = "interpret" /\ interp.stack # <<>> /\ interp.exc.sig = ""
    /\ Top(interp).f = "Super"

\* C19: super.m in a method declared in a class with a superclass (the
\* nearest environment around the running code that holds super is the one
\* visit_class_stmt made for that class, and holds the superclass) gives the
\* method m found from that superclass up, whatever the class of the
\* receiver, bound to the receiver, the this of the running method; in
\* methods and in class-level methods alike (SuperChain prints 5,
\* SuperStatic prints A).
SuperDispatch ==
    /\ [](/\ Finished(35) => interp.out = <<"5">> /\ escaped = ""
          /\ Finished(36) => interp.out = <<"A">> /\ escaped = "")
    /\ [][SuperRead =>
            LET expr == Top(interp).node
                declaring == Holder(interp, interp.environment, "super")
                receiving == Holder(interp, interp.environment, "this")
                superclass == interp.envs[declaring].values["super"]
                method == find_method(interp, superclass.n, expr.method)
            IN  IF declaring = 0 \/ receiving = 0 THEN TRUE
                ELSE IF superclass.t # "class" THEN TRUE
                ELSE IF method = 0 THEN TRUE
                ELSE /\ interp'.exc.sig = ""
                     /\ Bound(interp, interp', interp'.ret, method,
                              interp.envs[receiving].values["this"])]_vars

\* C20: the metaclass of a class has exactly the class-level methods declared
\* in the class, and the read of a property of a class value gives the
\* field of that name set on the class or else the class-level method of
\* that name bound to the class; a name that is neither, the name of an
\* instance method of the class or of its superclass included, raises the
\* undefined property error (ClassProperty prints A and 4 and ends with the
\* error for B.m).
ClassPropertyRead ==
    /\ [](Finished(37) => interp.out = <<"A", "4", "Undefined property">>)
    /\ [][TraitsApplied =>
            LET klass == interp'.heap[Len(interp'.heap)]
            IN  /\ klass.klass # 0
                /\ DOMAIN interp'.heap[klass.klass].methods
                      = Declared(Top(interp).node.class_methods)]_vars
    /\ [][PropertyRead /\ interp.ret.t = "class" =>
            LET obj == interp.ret
                name == Top(interp).node.name
                fields == interp.heap[obj.n].fields
                metaclass == interp.heap[obj.n].klass
            IN  IF name \in DOMAIN fields
                THEN interp'.exc.sig = "" /\ Got(interp, interp') = fields[name]
                ELSE IF metaclass # 0 /\ name \in DOMAIN interp.heap[metaclass].methods
                THEN /\ interp'.exc.sig = ""
                     /\ Bound(interp, interp', Got(interp, interp'),
                              interp.heap[metaclass].methods[name], obj)
                ELSE /\ interp'.exc.sig = "LoxRuntimeError"
                     /\ interp'.exc.msg = "Undefined property"]_vars

\* visit_call_expr has evaluated the callee, a callable, and all arguments
CallReady ==
    /\ phase = "interpret" /\ interp.stack # <<>> /\ interp.exc.sig = ""
    /\ Top(interp).f = "Call" /\ Top(interp).pc = 1
    /\ Len(Top(interp).vals) = Len(Top(interp).node.arguments)
    /\ IsLoxCallable(Append(Top(interp).vals, interp.ret)[1])

\* the parameter count of a function, 0 for a getter; for a class that of
\* the init of the nearest class up the superclass chain that has one, 0
\* when none has
Parameters(I, callee) ==
    LET chain == Ancestry(I, callee.n)
        owners == {i \in DOMAIN chain : "init" \in DOMAIN I.heap[chain[i]].methods}
        nearest == chain[CHOOSE i \in owners : \A j \in owners : i <= j]
    IN  CASE callee.t = "fn" ->
                IF I.heap[callee.n].declaration.getter THEN 0
                ELSE Len(I.heap[callee.n].declaration.params)
          [] callee.t = "class" ->
                IF owners = {} THEN 0
                ELSE Len(I.heap[I.heap[nearest].methods["init"]].declaration.params)
          [] OTHER -> arity(I, callee)

\* C21: a call with an argument count that is not the callee's arity raises
\* "Expected N arguments but got M." with N the arity and M the count, and
\* neither binds a parameter nor executes anything of the callee: no
\* environment, no object and no output is made; the arity of a function is
\* its parameter count and that of a class the one of the init found on it
\* or an ancestor, 0 without one.  A call with the right count goes on to
\* the callee.
ArityCheck ==
    [][CallReady =>
          LET vals == Append(Top(interp).vals, interp.ret)
              callee == vals[1]
              M == Len(vals) - 1
              N == Parameters(interp, callee)
          IN  IF M # N
              THEN /\ interp'.exc.sig = "LoxRuntimeError"
                   /\ interp'.exc.msg = "Expected " \o ToString(N) \o " arguments but got "
                                         \o ToString(M) \o "."
                   /\ Len(interp'.stack) < Len(interp.stack)
                   /\ interp'.envs = interp.envs
                   /\ interp'.heap = interp.heap
                   /\ interp'.out = interp.out
              ELSE IF callee.t \in {"fn", "class"}
              THEN /\ interp'.exc.sig = ""
                   /\ Len(interp'.stack) > Len(interp.stack)
                   /\ Top(interp').a = callee.n /\ Top(interp').vals = Tail(vals)
              ELSE interp'.exc.msg # "Expected " \o ToString(N) \o " arguments but got "
                                      \o ToString(M) \o "."]_vars

\* the call B() of ArityInherited has been refused for the init(a) of A
ArityCheckWitness ==
    /\ Finished(38)
    /\ interp.out = <<"Expected 1 arguments but got 0.">>
    /\ caught = "Expected 1 arguments but got 0."

\* visit_call_expr is about to call the get or the set callable of an array
\* with as many arguments as it takes
ArrayCall(kind) ==
    /\ CallReady
    /\ Append(Top(interp).vals, interp.ret)[1].t = kind
    /\ Len(Top(interp).vals) = IF kind = "ArrayGetCallable" THEN 1 ELSE 2

\* the array whose list the callable about to be called holds, and the
\* arguments of the call
ArrayCalled == interp.heap[Top(interp).vals[1].n].array
ArrayArguments == Tail(Append(Top(interp).vals, interp.ret))

\* C22: a get(i) or set(i, v) of an array with a number i outside
\* 0..length-1, the negative ones included, raises a runtime error and
\* leaves every element of the array as it was.
ArrayIndexChecked ==
    [][(ArrayCall("ArrayGetCallable") \/ ArrayCall("ArraySetCallable"))
       /\ ArrayArguments[1].t = "num"
       /\ ArrayArguments[1].n \notin 0..(Len(interp.heap[ArrayCalled].elements) - 1)
       => /\ interp'.exc.sig = "LoxRuntimeError"
          /\ interp'.heap[ArrayCalled].elements = interp.heap[ArrayCalled].elements]_vars

\* visit_print_stmt has evaluated its expression
PrintReady ==
    /\ phase = "interpret" /\ interp.stack # <<>> /\ interp.exc.sig = ""
    /\ Top(interp).f = "Print" /\ Top(interp).pc = 1

\* C23: print e, with e evaluated to any value, writes exactly one line to
\* the output and raises nothing.
PrintsOneLine ==
    [][PrintReady => /\ Len(interp'.out) = Len(interp.out) + 1
                     /\ interp'.exc.sig = ""]_vars

\* Resolver.resolve(statements) to its end: every step that is left
RECURSIVE Resolver_resolve(_)
Resolver_resolve(R) == IF R.todo = <<>> THEN R ELSE Resolver_resolve(resolve(R))

\* the resolver has gone through the program once
ResolvedOnce == phase = "resolve" /\ resolver.todo = <<>>

\* the same resolver after resolve(statements) is called on it once more
ResolvedTwice == Resolver_resolve([resolver EXCEPT !.todo = ResolveAll("stmt", Statements, "")])

Messages(errs) == {errs[i] : i \in DOMAIN errs}

\* C24: a second run of the resolver over the same statements leaves the
\* table of depths as the first run made it and reports the same set of
\* messages; after the first and after the second run no scope is open and
\* the function and class contexts are NONE.
ResolverIdempotent ==
    ResolvedOnce =>
        /\ resolver.scopes = <<>>
        /\ resolver.current_function = "NONE" /\ resolver.current_class = "NONE"
        /\ ResolvedTwice.locals = resolver.locals
        /\ Messages(ResolvedTwice.errors) = Messages(resolver.errors)
        /\ ResolvedTwice.scopes = <<>>
        /\ ResolvedTwice.current_function = "NONE" /\ ResolvedTwice.current_class = "NONE"

\* a program with a static error and local references has been resolved, and
\* the second run reports each message once more
ResolverIdempotentWitness ==
    /\ ResolvedOnce
    /\ resolver.errors # <<>> /\ DOMAIN resolver.locals # {}
    /\ Len(ResolvedTwice.errors) = 2 * Len(resolver.errors)

\* the characters i+1..j of source are nothing but whitespace, line comments
\* (from // to the end of the line) and block comments (from /* to the */
\* that closes it, nested comments counted)
RECURSIVE Skipped(_, _, _)
Skipped(source, i, j) ==
    \/ i = j
    \/ /\ i < j
       /\ \/ source[i + 1] \in {" ", "\r", "\t", "\n"} /\ Skipped(source, i + 1, j)
          \/ /\ i + 2 <= j /\ source[i + 1] = "/" /\ source[i + 2] = "/"
             /\ \E e \in i + 2..j :
                   /\ \A x \in i + 3..e : source[x] # "\n"
                   /\ e = Len(source) \/ source[e + 1] = "\n"
                   /\ Skipped(source, e, j)
          \/ /\ i + 2 <= j /\ source[i + 1] = "/" /\ source[i + 2] = "*"
             /\ CommentEnd(source, i + 2, 1) \in i + 4..j
             /\ Skipped(source, CommentEnd(source, i + 2, 1), j)

\* the tokens from the k-th on, up to EOF, lie one after the other in the
\* characters of source after the first i, each lexeme the slice of the
\* source at its place, with nothing but skipped text before, between and
\* after them
RECURSIVE Reconstructs(_, _, _, _)
Reconstructs(source, i, tokens, k) ==
    IF tokens[k].type = "EOF" THEN Skipped(source, i, Len(source))
    ELSE \E j \in i..Len(source) - Len(tokens[k].lexeme) :
            /\ Skipped(source, i, j)
            /\ tokens[k].lexeme # ""
            /\ tokens[k].lexeme = Slice(source, j, j + Len(tokens[k].lexeme))
            /\ Reconstructs(source, j + Len(tokens[k].lexeme), tokens, k + 1)

Callee(I) ==
    LET calls == {i \in DOMAIN I.stack : I.stack[i].f = "LoxFunction_call"}
    IN  I.stack[CHOOSE i \in calls : \A j \in calls : j <= i].a

\* the receiver a function was bound to when it, or the method it was
\* declared in, was fetched: the this of the nearest environment around its
\* closure that holds one
Receiver(I, fn) == I.envs[Holder(I, I.heap[fn].closure, "this")].values["this"]

\* visit_this_expr is about to run
ThisRead ==
    /\ phase = "interpret" /\ interp.stack # <<>> /\ interp.exc.sig = ""
    /\ Top(interp).f = "This"

\* visit_get_expr reads a property of an instance that is no field of it but
\* a method of its class
MethodRead ==
    /\ PropertyRead /\ interp.ret.t = "inst"
    /\ Top(interp).node.name \notin DOMAIN interp.heap[interp.ret.n].fields
    /\ find_method(interp, interp.heap[interp.ret.n].klass, Top(interp).node.name) # 0

\* C26: this, in whatever call of a method it is evaluated, is the instance
\* the method was fetched from, wherever the method value was kept in
\* between (BoundMethod calls a.who through a variable and through a field
\* of b); and the read of a method makes one new function in one new
\* environment that holds this, and changes no object and no environment
\* that was there, the class's methods and the method's closure included.
BoundThis ==
    /\ [][ThisRead => /\ interp'.exc.sig = ""
                      /\ interp'.ret = Receiver(interp, Callee(interp))]_vars
    /\ [][MethodRead =>
            /\ Len(interp'.heap) = Len(interp.heap) + 1
            /\ SubSeq(interp'.heap, 1, Len(interp.heap)) = interp.heap
            /\ Len(interp'.envs) = Len(interp.envs) + 1
            /\ SubSeq(interp'.envs, 1, Len(interp.envs)) = interp.envs
            /\ Bound(interp, interp', Got(interp, interp'),
                     find_method(interp, interp.heap[interp.ret.n].klass,
                                 Top(interp).node.name),
                     interp.ret)]_vars
    /\ [](Finished(49) /\ interp.environment = Globals
             => interp.out = <<"a", "a", "b", "c", "b">>)

\* BoundMethod has called a.who from a variable and from a field of b
BoundThisWitness ==
    /\ Finished(49)
    /\ interp.out = <<"a", "a", "b", "c", "b">>
    /\ escaped = "" /\ caught = ""

\* a statement or an expression without the identities of its nodes
RECURSIVE Shape(_)
Shape(node) ==
    CASE node.k = "Block" ->
            Block([i \in DOMAIN node.statements |-> Shape(node.statements[i])])
      [] node.k = "Var" -> Var(node.name, Shape(node.initializer))
      [] node.k = "While" -> While(0, Shape(node.condition), Shape(node.body))
      [] node.k = "If" ->
            If(Shape(node.condition), Shape(node.then_branch), Shape(node.else_branch))
      [] node.k = "Expression" -> Expression(Shape(node.expression))
      [] node.k = "Print" -> PrintStmt(Shape(node.expression))
      [] node.k = "Break" -> Break(0)
      [] node.k = "Variable" -> Variable(0, node.name)
      [] node.k = "Assign" -> Assign(0, node.name, Shape(node.value))
      [] node.k = "Binary" -> Binary(Shape(node.left), node.operator, Shape(node.right))
      [] OTHER -> node

\* the statements scan_tokens and parse make of a text
Parsed(text) == parse(Parser(scan_tokens(Scanner(text, <<>>)).tokens, <<>>, 0)).statements

\* the texts of Sources with a for loop, and the texts with the same loop
\* written as { init; while (cond) { body; incr; } }
ForText == Len(Programs) + 8
WhileText == Len(Programs) + 9
ForEver == Len(Programs) + 10
WhileTrue == Len(Programs) + 11

\* the run has parsed text p without an error
Parses(p) ==
    /\ session # <<>> /\ session[Len(session)] = p
    /\ phase \in {"resolve", "interpret", "done"}

\* C27: a for statement is parsed into the statements of the block
\* { init; while (cond) { body; incr; } }, and of while (true) body when it
\* has no clauses, and runs as they do: in ForText and in WhileText the
\* condition is tested before each iteration, the increment follows each
\* body that ends and not the one that breaks (i is still 1 after the
\* loop), and the variable of the initializer is unknown after the loop.
ForDesugaring ==
    /\ Parses(ForText) =>
          [i \in DOMAIN Statements |-> Shape(Statements[i])]
             = [i \in DOMAIN Parsed(Sources[9]) |-> Shape(Parsed(Sources[9])[i])]
    /\ Parses(ForEver) =>
          [i \in DOMAIN Statements |-> Shape(Statements[i])]
             = [i \in DOMAIN Parsed(Sources[11]) |-> Shape(Parsed(Sources[11])[i])]
    /\ \A p \in {ForText, WhileText} :
          Finished(p) /\ Len(session) = 1
             => interp.out = <<"0", "1", "1", "Undefined variable">>
    /\ \A p \in {ForEver, WhileTrue} :
          Finished(p) /\ Len(session) = 1 => interp.out = <<"1">>

\* the for loop of ForText has run and the read of j after it has failed
ForDesugaringWitness ==
    /\ Finished(ForText)
    /\ interp.out = <<"0", "1", "1", "Undefined variable">>
    /\ Statements[2].k = "Block" /\ Statements[2].statements[2].k = "While"

\* the values that count as false: nil and false
Falsy(v) == v \in {Nil, Bool(FALSE)}

\* the visit method f of the expression in hand goes on from pc with the
\* value of the operand it has just evaluated
Evaluated(f, at) ==
    /\ phase = "interpret" /\ interp.stack # <<>> /\ interp.exc.sig = ""
    /\ Top(interp).f = f /\ Top(interp).pc = at

\* the step returns v from the visit method in hand
Gives(v) ==
    /\ Len(interp'.stack) = Len(interp.stack) - 1
    /\ interp'.exc.sig = "" /\ interp'.ret = v

\* the step goes on to evaluate expr, and nothing else
Evaluates(expr) ==
    /\ Len(interp'.stack) = Len(interp.stack) + 1
    /\ interp'.exc.sig = "" /\ Top(interp').node = expr /\ Top(interp').pc = 0

\* C28: a or b goes on to b only when the value of a is falsy and a and b
\* only when it is truthy, and gives the value of a as it is otherwise; the
\* value of b, when b is evaluated, is the result as it is; c ? x : y goes on
\* to x when the value of c is truthy and to y when it is falsy, never to
\* both, and gives the value of that branch.
ShortCircuit ==
    /\ [][Evaluated("Logical", 1) =>
            IF (Top(interp).node.operator = "OR") = Falsy(interp.ret)
            THEN Evaluates(Top(interp).node.right)
            ELSE Gives(interp.ret)]_vars
    /\ [][Evaluated("Logical", 2) => Gives(interp.ret)]_vars
    /\ [][Evaluated("Conditional", 1) =>
            Evaluates(IF Falsy(interp.ret) THEN Top(interp).node.else_branch
                      ELSE Top(interp).node.then_branch)]_vars
    /\ [][Evaluated("Conditional", 2) => Gives(interp.ret)]_vars

\* the arrays of the heap
Arrays(I) == {i \in DOMAIN I.heap : I.heap[i].k = "array"}

\* visit_call_expr is about to call Array with one argument, a number
ArrayCreated ==
    /\ CallReady
    /\ Append(Top(interp).vals, interp.ret)[1] = Native("Array")
    /\ Top(interp).vals # <<>> /\ interp.ret.t = "num" /\ interp.ret.n >= 0

\* visit_set_expr has evaluated the object, an array, and the value
ArrayPropertyWrite ==
    /\ Evaluated("Set", 2) /\ Top(interp).vals[1].t = "array"

\* C29: Array(n) makes an array of n elements, and no step changes the number
\* of elements of an array; set(i, v) with i in 0..length-1 puts v in the
\* place of element i of its array, changes no other element and no other
\* array, and gives v; get(i) of every get callable of the array, obtained
\* before the set or after it, gives the element i the array has then; the
\* write of a property of an array raises "Can't add properties to arrays."
\* and changes no object and no environment.
ArrayFixedSize ==
    /\ [][\A a \in Arrays(interp) :
            /\ a \in Arrays(interp')
            /\ Len(interp'.heap[a].elements) = Len(interp.heap[a].elements)]_vars
    /\ [][ArrayCreated =>
            /\ Gives(Ref("array", Len(interp'.heap)))
            /\ Arrays(interp') = Arrays(interp) \cup {Len(interp'.heap)}
            /\ interp'.heap[Len(interp'.heap)].elements = [i \in 1..interp.ret.n |-> Nil]]_vars
    /\ [][ArrayCall("ArraySetCallable")
           /\ ArrayArguments[1].t = "num"
           /\ ArrayArguments[1].n \in 0..(Len(interp.heap[ArrayCalled].elements) - 1)
           => /\ Gives(ArrayArguments[2])
              /\ interp'.heap = [interp.heap EXCEPT
                     ![ArrayCalled].elements[ArrayArguments[1].n + 1] = ArrayArguments[2]]]_vars
    /\ [][ArrayCall("ArrayGetCallable")
           /\ ArrayArguments[1].t = "num"
           /\ ArrayArguments[1].n \in 0..(Len(interp.heap[ArrayCalled].elements) - 1)
           => /\ Gives(interp.heap[ArrayCalled].elements[ArrayArguments[1].n + 1])
              /\ interp'.heap = interp.heap]_vars
    /\ [][ArrayPropertyWrite =>
            /\ interp'.exc.sig = "LoxRuntimeError"
            /\ interp'.exc.msg = "Can't add properties to arrays."
            /\ interp'.heap = interp.heap /\ interp'.envs = interp.envs]_vars

\* ArrayShared has read element 1 through a get callable made before the set
\* and through one made after it, and has tried to write a property
ArrayFixedSizeWitness ==
    /\ Finished(44)
    /\ interp.out = <<"s", "s", "2", "[nil, s]", "Can't add properties to arrays.">>
    /\ \E a \in Arrays(interp) : interp.heap[a].elements = <<Nil, Str("s")>>

\* env and the environments around it, nearest first
RECURSIVE Chain(_, _)
Chain(I, env) == IF env = 0 THEN <<>> ELSE <<env>> \o Chain(I, I.envs[env].enclosing)

\* C30: environment.assign(name, value) puts value in the place of the
\* binding of name in the first environment, from the environment itself
\* outwards, that binds name, and changes no other binding and no other
\* environment; when none binds name it raises the undefined variable error
\* and all environments stay as they were, without a new binding.
AssignNearest ==
    [][phase = "assign" /\ Top(interp).pc = 0 =>
          LET chain == Chain(interp, Top(interp).a)
              name == Top(interp).vals[1].s
              holders == {i \in DOMAIN chain : name \in DOMAIN interp.envs[chain[i]].values}
              nearest == chain[CHOOSE i \in holders : \A j \in holders : i <= j]
          IN  IF holders # {}
              THEN /\ interp'.exc.sig = ""
                   /\ interp'.envs = [interp.envs EXCEPT
                                         ![nearest].values[name] = Top(interp).vals[2]]
              ELSE /\ interp'.exc.sig = "LoxRuntimeError"
                   /\ interp'.exc.msg = "Undefined variable"
                   /\ interp'.envs = interp.envs]_vars

\* assign on the innermost of three environments has changed the binding of
\* a in the middle one and left the one in the outermost
AssignNearestWitness ==
    /\ phase = "assign" /\ Len(interp.envs) = 3
    /\ Top(interp).pc = 1 /\ Top(interp).a = 3
    /\ Top(interp).vals[1] = Str("a")
    /\ interp.exc.sig = ""
    /\ interp.envs[3].enclosing = 2 /\ interp.envs[2].enclosing = 1
    /\ "a" \notin DOMAIN interp.envs[3].values
    /\ "a" \in DOMAIN interp.envs[2].values /\ interp.envs[2].values["a"] = Num(1)
    /\ "a" \in DOMAIN interp.envs[1].values /\ interp.envs[1].values["a"] = Num(0)

====
